---------------------------- MODULE Spec2Model ----------------------------
(***************************************************************************)
(* A model of the core of noodles: the BGZF chunk optimizer, virtual       *)
(* positions, the BGZF writer/reader pair, the BAM record writer, the bins *)
(* of the BAI/CSI binning scheme, the BCF integer and string-map codec,    *)
(* the tabix index writer, and the VCF reader's read_header and query and  *)
(* the parser of the header's INFO records.                                *)
(*                                                                         *)
(* Each component has its own variables and its own specification; the     *)
(* variables of the other components are held at their idle values.        *)
(***************************************************************************)
EXTENDS Integers, Sequences, FiniteSets, TLC

VARIABLES
    \* ---- noodles-bgzf/src/index.rs: one call of optimize_chunks / merge_chunks
    chunks,        \* the caller's list of chunks (the `chunks: &[Chunk]` argument)
    min_offset,    \* the caller's `min_offset: VirtualPosition`
    chunkOp,       \* "none" before the call, then "optimize" or "merge"
    merged_chunks, \* the Vec<Chunk> the call returned
    \* ---- noodles-bgzf virtual_position: one construction from (coffset, uoffset)
    vpCoffset,     \* the compressed offset given, a u64
    vpUoffset,     \* the uncompressed offset given, a u16
    vpResult,      \* NoResult before the call, then the Result of the construction
    \* ---- noodles-bam writer/record.rs: calls of write_data_i32_value on one writer
    auxBuf,        \* the writer, a Vec<u8>: the bytes written so far
    auxN,          \* the n: i32 of the last call
    auxStart,      \* the length of the writer before the last call
    auxCalls,      \* the number of calls made
    \* ---- noodles-bam writer/record.rs: one call of write_sam_record
    rec,           \* the sam::Record given
    recResult,     \* NoResult before the call, then the bytes written and the outcome
    \* ---- noodles-bgzf writer and reader: one writer, then one reader of its output
    bgData,        \* the bytes given to write_all so far, in order
    wBuf,          \* the writer's buffer of uncompressed bytes
    wSink,         \* the inner writer, a Vec<u8>: the blocks emitted so far
    wFinished,     \* whether finish has run
    wFlushes,      \* the number of flush calls made
    rdResult,      \* NoResult before the read, then what read_to_end returned
    \* ---- bin of a region: one call each of region_to_bin and reg2bins on one interval
    binStart,      \* the start given, an i32
    binEnd,        \* the end given
    binResult,     \* NoResult before the call, then the bin region_to_bin returned
    binMarks,      \* NoResult before the call, then the bins reg2bins marked
    \* ---- noodles-csi bin.rs: one call each of Bin::max_id and Bin::metadata_id
    midDepth,      \* the depth given, an i32
    midChecks,     \* whether the build checks arithmetic overflow
    midMax,        \* NoResult before the call, then the outcome of Bin::max_id
    midMeta,       \* NoResult before the call, then the outcome of Bin::metadata_id
    \* ---- noodles-csi reference_sequence.rs: one call of ReferenceSequence::query
    qBins,         \* the ids of self.bins, in stored order
    qScheme,       \* the min_shift and depth given
    qStart,        \* the start given, 1-based
    qEnd,          \* the end given, 1-based, inclusive
    qResult,       \* NoResult before the call, then the ids of the bins returned
    \* ---- noodles-bcf record/value/int32.rs: conversions between i32 and Int32
    i32N,          \* the i32 given
    i32X,          \* NoResult, then Int32::from(n)
    i32Back,       \* NoResult, then i32::from of that Int32
    i32Again,      \* NoResult, then Int32::from of that i32
    \* ---- noodles-bcf writer/string_map.rs: calls of write_string_map_index on one writer
    smBuf,         \* the writer, a Vec<u8>: the bytes written so far
    smI,           \* the i: usize of the last call, as <<i div 2^31, i mod 2^31>>
    smStart,       \* the length of the writer before the last call
    smCalls,       \* the number of calls made
    smResult,      \* NoResult, then the io::Result of the last call
    \* ---- noodles-bgzf writer: the calls of try_finish
    wFinishCalls,  \* the number of try_finish calls made on the writer
    \* ---- noodles-bgzf reader: read_line, virtual_position and seek on the writer's output
    rd,            \* the reader of the lines: the offset of the next block, the block held and the cursor in it
    rdLines,       \* the lines read, each with the virtual position observed before its read_line
    rdEof,         \* whether a read_line returned 0
    rdReread,      \* NoResult, then the line read after a seek to a recorded virtual position
    \* ---- noodles-bgzf/src/index.rs: further calls of optimize_chunks with the same min_offset
    permChunks,    \* the same chunks in the order given to a second call
    permResult,    \* NoResult, then what optimize_chunks returned for permChunks
    againResult,   \* NoResult, then what optimize_chunks returned for its own result
    \* ---- noodles-tabix/src/writer.rs: one call of Writer::write_index
    tbxIndex,      \* the tabix::Index given to write_index
    tbxOut,        \* NoResult, then the uncompressed bytes write_index wrote
    \* ---- noodles-vcf/src/reader.rs: one call of Reader::query
    vqIndex,       \* the tabix::Index given to query
    vqRegion,      \* the Region given
    vqResult,      \* NoResult, then the io::Result of Reader::query
    \* ---- noodles-vcf/src/reader.rs: one call of read_header, then one of read_record
    hdInput,       \* the bytes of the underlying stream
    hdReader,      \* the BufRead: the bytes consumed and the bytes held in its buffer
    hdLoop,        \* the locals of read_header: whether i is 0, is_eol and header_buf
    hdState,       \* where read_header is: running, returned or panicked
    hdRecord,      \* NoResult, then what the read_record after read_header returned
    \* ---- noodles-vcf/src/header/info.rs: one call of Info::try_from
    infoRecord,    \* the header Record given to Info::try_from
    infoResult     \* NoResult, then the Result of Info::try_from

chunkVars == <<chunks, min_offset, chunkOp, merged_chunks>>
vpVars == <<vpCoffset, vpUoffset, vpResult>>
auxVars == <<auxBuf, auxN, auxStart, auxCalls>>
recVars == <<rec, recResult>>
bgzfVars == <<bgData, wBuf, wSink, wFinished, wFlushes, rdResult>>

binVars == <<binStart, binEnd, binResult, binMarks>>

midVars == <<midDepth, midChecks, midMax, midMeta>>

queryVars == <<qBins, qScheme, qStart, qEnd, qResult>>

int32Vars == <<i32N, i32X, i32Back, i32Again>>

smVars == <<smBuf, smI, smStart, smCalls, smResult>>

finishVars == <<wFinishCalls>>

lineVars == <<rd, rdLines, rdEof, rdReread>>

permVars == <<permChunks, permResult, againResult>>

tbxVars == <<tbxIndex, tbxOut>>

vqVars == <<vqIndex, vqRegion, vqResult>>

hdVars == <<hdInput, hdReader, hdLoop, hdState, hdRecord>>

infoVars == <<infoRecord, infoResult>>

vars == <<chunkVars, vpVars, auxVars, recVars, bgzfVars, binVars, midVars, queryVars, int32Vars, smVars, finishVars, lineVars, permVars, tbxVars, vqVars, hdVars, infoVars>>

\* The value of a result variable before the call.
NoResult == [called |-> FALSE]

\* The values a component's variables hold in the specifications of the others.
IdleChunks == chunks = <<>> /\ min_offset = 0 /\ chunkOp = "none" /\ merged_chunks = <<>>
IdleVP == vpCoffset = <<0, 0, 0, 0>> /\ vpUoffset = 0 /\ vpResult = NoResult
IdleAux == auxBuf = <<>> /\ auxN = 0 /\ auxStart = 0 /\ auxCalls = 0
IdleRec == rec = <<>> /\ recResult = NoResult
IdleBgzf ==
    /\ bgData = <<>> /\ wBuf = <<>> /\ wSink = <<>>
    /\ wFinished = FALSE /\ wFlushes = 0 /\ rdResult = NoResult
IdleBin == binStart = 0 /\ binEnd = 0 /\ binResult = NoResult /\ binMarks = NoResult
IdleMaxId == midDepth = 0 /\ midChecks = FALSE /\ midMax = NoResult /\ midMeta = NoResult
IdleQuery == qBins = <<>> /\ qScheme = <<>> /\ qStart = 0 /\ qEnd = 0 /\ qResult = NoResult
IdleInt32 == i32N = 0 /\ i32X = NoResult /\ i32Back = NoResult /\ i32Again = NoResult
IdleStringMap == smBuf = <<>> /\ smI = <<0, 0>> /\ smStart = 0 /\ smCalls = 0 /\ smResult = NoResult
IdleFinish == wFinishCalls = 0
IdleLines == rd = <<>> /\ rdLines = <<>> /\ rdEof = FALSE /\ rdReread = NoResult
IdlePerm == permChunks = <<>> /\ permResult = NoResult /\ againResult = NoResult
IdleTabix == tbxIndex = <<>> /\ tbxOut = NoResult
IdleVcfQuery == vqIndex = <<>> /\ vqRegion = <<>> /\ vqResult = NoResult
IdleHeader == hdInput = <<>> /\ hdReader = <<>> /\ hdLoop = <<>> /\ hdState = "idle" /\ hdRecord = NoResult
IdleInfo == infoRecord = <<>> /\ infoResult = NoResult

(***************************************************************************)
(* Generic helpers.                                                        *)
(***************************************************************************)
Range(s) == {s[i] : i \in 1..Len(s)}

\* All sequences over S of length at most n.
SeqsUpTo(S, n) == UNION {[1..k -> S] : k \in 0..n}

(***************************************************************************)
(* Chunk optimizer (noodles-bgzf/src/index.rs).                            *)
(*                                                                         *)
(* A VirtualPosition is an unsigned 64-bit number ordered as such; the     *)
(* optimizer only compares and copies positions, so a position is a        *)
(* natural number here.  A Chunk is a pair (start, end).                   *)
(***************************************************************************)
MaxVPos == 3
MaxChunks == 3

VPositions == 0..MaxVPos

Chunk(s, e) == [start |-> s, end |-> e]

\* The chunks the callers build: start <= end.
ValidChunks == {Chunk(s, e) : s \in VPositions, e \in VPositions} \cap
               {c \in [start : VPositions, end : VPositions] : c.start <= c.end}

\* Mutants of Retain: keep a chunk that ends exactly at min_offset; keep everything.
Retain_AtOffset(c, m) == c.end >= m

Retain_Everything(c, m) == TRUE

\* `.filter(|c| c.end() > min_offset)`
Retain(c, m) == c.end > m

FilterChunks(cs, m) == SelectSeq(cs, LAMBDA c : Retain(c, m))

\* `sort_unstable_by_key(|c| c.start())`: the result is some arrangement of the
\* list's elements with non-decreasing starts; which one, among elements with
\* equal starts, is left to the sort.  SortedOrders is the set of all of them.
RECURSIVE OrdersOf(_, _)
OrdersOf(cs, idx) ==
    IF idx = {} THEN {<<>>}
    ELSE LET lo == {i \in idx : \A j \in idx : cs[i].start <= cs[j].start}
         IN  UNION {{<<cs[i]>> \o t : t \in OrdersOf(cs, idx \ {i})} : i \in lo}

\* Mutant of SortedOrders: the list is left in the order given.
SortedOrders_Unsorted(cs) == {cs}

SortedOrders(cs) == OrdersOf(cs, 1..Len(cs))

\* Mutants of SweepStep: a chunk that touches the current one starts a new chunk;
\* an overlapping chunk never extends the current one.
SweepStep_SplitTouching(st, next_chunk) ==
    IF next_chunk.start >= st.current_chunk.end
    THEN [merged |-> Append(st.merged, st.current_chunk), current_chunk |-> next_chunk]
    ELSE IF st.current_chunk.end < next_chunk.end
    THEN [merged |-> st.merged,
          current_chunk |-> Chunk(st.current_chunk.start, next_chunk.end)]
    ELSE st

SweepStep_NoExtend(st, next_chunk) ==
    IF next_chunk.start > st.current_chunk.end
    THEN [merged |-> Append(st.merged, st.current_chunk), current_chunk |-> next_chunk]
    ELSE st

\* One iteration of the sweep `for next_chunk in chunks.iter().skip(1)`: the
\* state of the loop is (merged_chunks, current_chunk).
SweepStep(st, next_chunk) ==
    IF next_chunk.start > st.current_chunk.end
    THEN [merged |-> Append(st.merged, st.current_chunk), current_chunk |-> next_chunk]
    ELSE IF st.current_chunk.end < next_chunk.end
    THEN [merged |-> st.merged,
          current_chunk |-> Chunk(st.current_chunk.start, next_chunk.end)]
    ELSE st

RECURSIVE SweepFrom(_, _, _)
SweepFrom(sorted, i, st) ==
    IF i > Len(sorted) THEN Append(st.merged, st.current_chunk)
    ELSE SweepFrom(sorted, i + 1, SweepStep(st, sorted[i]))

\* Mutant of Sweep: the push of the last current_chunk after the loop is missing.
Sweep_NoFinalPush(sorted) ==
    LET r == SweepFrom(sorted, 2, [merged |-> <<>>, current_chunk |-> sorted[1]])
    IN  SubSeq(r, 1, Len(r) - 1)

\* The sweep over a non-empty sorted list, starting with current_chunk = chunks[0].
Sweep(sorted) == SweepFrom(sorted, 2, [merged |-> <<>>, current_chunk |-> sorted[1]])

\* Every value optimize_chunks(cs, m) can return.
OptimizeResults(cs, m) ==
    LET kept == FilterChunks(cs, m)
    IN  IF kept = <<>> THEN {<<>>}
        ELSE {Sweep(sorted) : sorted \in SortedOrders(kept)}

\* `VirtualPosition::default()`, the min_offset merge_chunks passes.
DefaultVPos == 0

InitChunks ==
    /\ chunks \in SeqsUpTo(ValidChunks, MaxChunks)
    /\ min_offset \in VPositions
    /\ chunkOp = "none"
    /\ merged_chunks = <<>>
    /\ IdleVP /\ IdleAux /\ IdleRec /\ IdleBgzf /\ IdleBin /\ IdleMaxId
    /\ IdleQuery /\ IdleInt32 /\ IdleStringMap /\ IdleFinish /\ IdleLines
    /\ IdlePerm /\ IdleTabix /\ IdleVcfQuery /\ IdleHeader /\ IdleInfo

optimize_chunks ==
    /\ chunkOp = "none"
    /\ \E r \in OptimizeResults(chunks, min_offset) : merged_chunks' = r
    /\ chunkOp' = "optimize"
    /\ UNCHANGED <<chunks, min_offset, vpVars, auxVars, recVars, bgzfVars,
                   binVars, midVars, queryVars, int32Vars, smVars,
                   finishVars, lineVars, permVars, tbxVars, vqVars, hdVars,
                   infoVars>>

merge_chunks ==
    /\ chunkOp = "none"
    /\ \E r \in OptimizeResults(chunks, DefaultVPos) : merged_chunks' = r
    /\ chunkOp' = "merge"
    /\ UNCHANGED <<chunks, min_offset, vpVars, auxVars, recVars, bgzfVars,
                   binVars, midVars, queryVars, int32Vars, smVars,
                   finishVars, lineVars, permVars, tbxVars, vqVars, hdVars,
                   infoVars>>

\* The arrangements of a list: the lists a caller can pass that hold the same chunks.
PermutationsOf(cs) ==
    {[i \in 1..Len(cs) |-> cs[f[i]]] :
        f \in {g \in [1..Len(cs) -> 1..Len(cs)] :
                  \A i, j \in 1..Len(cs) : g[i] = g[j] => i = j}}

\* A second call of optimize_chunks, on the same chunks in another order.
OptimizePermuted ==
    /\ chunkOp = "optimize"
    /\ permResult = NoResult
    /\ \E p \in PermutationsOf(chunks) :
          /\ permChunks' = p
          /\ \E r \in OptimizeResults(p, min_offset) :
                permResult' = [called |-> TRUE, chunks |-> r]
    /\ UNCHANGED <<chunkVars, againResult, vpVars, auxVars, recVars, bgzfVars,
                   binVars, midVars, queryVars, int32Vars, smVars,
                   finishVars, lineVars, tbxVars, vqVars, hdVars, infoVars>>

\* A call of optimize_chunks on the list the first call returned.
OptimizeAgain ==
    /\ chunkOp = "optimize"
    /\ againResult = NoResult
    /\ \E r \in OptimizeResults(merged_chunks, min_offset) :
          againResult' = [called |-> TRUE, chunks |-> r]
    /\ UNCHANGED <<chunkVars, permChunks, permResult, vpVars, auxVars, recVars,
                   bgzfVars, binVars, midVars, queryVars, int32Vars, smVars,
                   finishVars, lineVars, tbxVars, vqVars, hdVars, infoVars>>

NextChunks == optimize_chunks \/ merge_chunks

SpecChunks == InitChunks /\ [][NextChunks]_vars

\* Repeated calls: the lists and offsets the repeated calls are tried on.
MaxPermVPos == 2
MaxPermChunks == 3

PermChunks == {c \in ValidChunks : c.end <= MaxPermVPos}

InitPermuted ==
    /\ chunks \in SeqsUpTo(PermChunks, MaxPermChunks)
    /\ min_offset \in 0..MaxPermVPos
    /\ chunkOp = "none"
    /\ merged_chunks = <<>>
    /\ permChunks = <<>>
    /\ permResult = NoResult
    /\ againResult = NoResult
    /\ IdleVP /\ IdleAux /\ IdleRec /\ IdleBgzf /\ IdleBin /\ IdleMaxId
    /\ IdleQuery /\ IdleInt32 /\ IdleStringMap /\ IdleFinish /\ IdleLines
    /\ IdleTabix /\ IdleVcfQuery /\ IdleHeader /\ IdleInfo

NextPermuted == optimize_chunks \/ OptimizePermuted \/ OptimizeAgain

SpecPermuted == InitPermuted /\ [][NextPermuted]_vars

(***************************************************************************)
(* Claims about the chunk optimizer.                                       *)
(***************************************************************************)
\* The min_offset the call ran with.
EffMinOffset == IF chunkOp = "merge" THEN DefaultVPos ELSE min_offset

\* The virtual positions in the half-open ranges [start, end) of a list of chunks.
Covered(cs) == {p \in VPositions : \E c \in Range(cs) : c.start <= p /\ p < c.end}

\* The input chunks the claims call retained: those with end > min_offset.
RetainedInput == SelectSeq(chunks, LAMBDA c : ~(c.end <= EffMinOffset))

\* C1: the list optimize_chunks returns is sorted by start and, for each
\* consecutive pair (a, b) of it, a.end < b.start.
C1_SortedNonOverlapping ==
    chunkOp # "none" =>
        \A i \in 1..(Len(merged_chunks) - 1) :
            /\ merged_chunks[i].start <= merged_chunks[i + 1].start
            /\ merged_chunks[i].end < merged_chunks[i + 1].start

\* C1 witness: a call on three chunks that returned two chunks, one of them merged
\* from two inputs.
C1_Witness ==
    /\ chunkOp = "optimize"
    /\ Len(chunks) = 3
    /\ Len(merged_chunks) = 2
    /\ \E o \in Range(merged_chunks) : o \notin Range(chunks)

\* C2: the union of the ranges of the returned chunks equals the union of the
\* ranges of the retained input chunks; every retained chunk lies inside one
\* returned chunk, and each returned chunk runs from the smallest start to the
\* largest end of the retained chunks inside it.
C2_UnionOfRetained ==
    chunkOp # "none" =>
        /\ Covered(merged_chunks) = Covered(RetainedInput)
        /\ \A c \in Range(RetainedInput) :
               \E o \in Range(merged_chunks) : o.start <= c.start /\ c.end <= o.end
        /\ \A o \in Range(merged_chunks) :
               LET inside == {c \in Range(RetainedInput) :
                                 o.start <= c.start /\ c.end <= o.end}
               IN  /\ \E c \in inside : c.start = o.start
                   /\ \E c \in inside : c.end = o.end

\* C2 witness: three retained chunks, overlapping or touching, merged into one
\* chunk that is none of them.
C2_Witness ==
    /\ chunkOp = "optimize"
    /\ Len(RetainedInput) = 3
    /\ Len(merged_chunks) = 1
    /\ merged_chunks[1] \notin Range(chunks)
    /\ \E a, b \in Range(chunks) : a.end = b.start /\ a.start < a.end /\ b.start < b.end

\* C3 as stated: every position covered by a returned chunk is covered by some
\* input chunk and is >= min_offset.
C3_Original ==
    chunkOp # "none" =>
        \A p \in Covered(merged_chunks) :
            p \in Covered(chunks) /\ p >= EffMinOffset

\* C3 as amended: every position covered by a returned chunk is covered by some
\* input chunk whose end is > min_offset (a retained chunk is returned whole,
\* also the part of it below min_offset).
C3_SubsetOfRetained ==
    chunkOp # "none" =>
        \A p \in Covered(merged_chunks) :
            \E c \in Range(chunks) : c.end > EffMinOffset /\ c.start <= p /\ p < c.end

\* C3 witness: a call with a positive min_offset that dropped a chunk and returned
\* a chunk that starts below min_offset.
C3_Witness ==
    /\ chunkOp = "optimize"
    /\ min_offset > 0
    /\ Len(RetainedInput) < Len(chunks)
    /\ \E o \in Range(merged_chunks) : o.start < min_offset /\ min_offset < o.end

\* C4: chunks with end <= min_offset are discarded before merging: the result is
\* a result of the call on the input without them, every returned chunk has
\* end > min_offset, and when nothing is retained the result is empty.
C4_DropsBelowMinOffset ==
    chunkOp # "none" =>
        /\ merged_chunks \in OptimizeResults(RetainedInput, EffMinOffset)
        /\ OptimizeResults(chunks, EffMinOffset) =
               OptimizeResults(RetainedInput, EffMinOffset)
        /\ \A o \in Range(merged_chunks) : o.end > EffMinOffset
        /\ (RetainedInput = <<>> => merged_chunks = <<>>)

\* C4 witness: a call that discarded a chunk ending exactly at min_offset and kept
\* another.
C4_Witness ==
    /\ chunkOp = "optimize"
    /\ \E c \in Range(chunks) : c.end = min_offset /\ c.start < c.end
    /\ merged_chunks # <<>>
    /\ Len(RetainedInput) < Len(chunks)

\* C4 witness for the empty result: a non-empty input of which nothing is retained.
C4_WitnessEmpty ==
    chunkOp = "optimize" /\ chunks # <<>> /\ RetainedInput = <<>> /\ merged_chunks = <<>>

\* C24: the result of optimize_chunks does not depend on the order of its input:
\* a call on any arrangement of the same chunks, with the same min_offset,
\* returns the list the first call returned, and no choice of the unstable sort
\* gives another list.
C24_OrderIndependent ==
    (chunkOp = "optimize" /\ permResult # NoResult) =>
        /\ permResult.chunks = merged_chunks
        /\ OptimizeResults(permChunks, min_offset) = {merged_chunks}

\* C24 witness: the second call got the chunks in another order, two of the
\* retained chunks share a start and differ, and a chunk was returned.
C24_Witness ==
    /\ chunkOp = "optimize"
    /\ permResult # NoResult
    /\ permChunks # chunks
    /\ \E i, j \in 1..Len(chunks) :
          /\ i # j
          /\ chunks[i].start = chunks[j].start
          /\ chunks[i].end # chunks[j].end
          /\ chunks[i].end > min_offset /\ chunks[j].end > min_offset
    /\ permResult.chunks # <<>>

\* C25: optimize_chunks is idempotent for a fixed min_offset: the call on its
\* own result returns that result.
C25_Idempotent ==
    (chunkOp = "optimize" /\ againResult # NoResult) =>
        againResult.chunks = merged_chunks

\* C25 witness: the first call dropped a chunk and merged two others, and the
\* call on its result has run.
C25_Witness ==
    /\ chunkOp = "optimize"
    /\ againResult # NoResult
    /\ Len(RetainedInput) < Len(chunks)
    /\ Len(merged_chunks) < Len(RetainedInput)
    /\ merged_chunks # <<>>

(***************************************************************************)
(* Virtual positions (noodles-bgzf, virtual_position).                     *)
(*                                                                         *)
(* A u64 is a sequence of four 16-bit limbs, least significant first, so   *)
(* that the 48-bit and 16-bit fields keep their widths.                    *)
(***************************************************************************)
VPNear == 1

LimbBase == 65536

LimbSamples == (0..VPNear) \cup {LimbBase \div 2} \cup ((LimbBase - 1 - VPNear)..(LimbBase - 1))

U64Samples == [1..4 -> LimbSamples]

RECURSIVE BitOr(_, _)
BitOr(a, b) ==
    IF a = 0 THEN b
    ELSE IF b = 0 THEN a
    ELSE (IF a % 2 = 1 \/ b % 2 = 1 THEN 1 ELSE 0) + 2 * BitOr(a \div 2, b \div 2)

RECURSIVE BitAnd(_, _)
BitAnd(a, b) ==
    IF a = 0 \/ b = 0 THEN 0
    ELSE (IF a % 2 = 1 /\ b % 2 = 1 THEN 1 ELSE 0) + 2 * BitAnd(a \div 2, b \div 2)

\* Mutant of Shl16: a shift by 8 bits.
Shl16_By8(x) ==
    [i \in 1..4 |-> ((x[i] * 256) % LimbBase) + (IF i = 1 THEN 0 ELSE x[i - 1] \div 256)]

\* x << 16 on a u64: the top limb is shifted out.
Shl16(x) == <<0, x[1], x[2], x[3]>>

\* x >> 16 on a u64.
Shr16(x) == <<x[2], x[3], x[4], 0>>

Or64(x, y) == [i \in 1..4 |-> BitOr(x[i], y[i])]

U64FromU16(u) == <<u, 0, 0, 0>>

\* coffset < 2^48
FitsIn48(x) == x[4] = 0

\* Packing: vpos = (coffset << 16) | uoffset; a compressed offset that does not
\* fit in 48 bits fails with InvalidRange.
VirtualPositionNew(coffset, uoffset) ==
    IF ~FitsIn48(coffset) THEN [ok |-> FALSE, err |-> "InvalidRange"]
    ELSE [ok |-> TRUE, value |-> Or64(Shl16(coffset), U64FromU16(uoffset))]

\* The split: the compressed offset is the upper 48 bits, the uncompressed
\* offset the lower 16.
VPCompressed(v) == Shr16(v)

VPUncompressed(v) == BitAnd(v[1], LimbBase - 1)

InitVP ==
    /\ vpCoffset \in U64Samples
    /\ vpUoffset \in LimbSamples
    /\ vpResult = NoResult
    /\ IdleChunks /\ IdleAux /\ IdleRec /\ IdleBgzf /\ IdleBin /\ IdleMaxId
    /\ IdleQuery /\ IdleInt32 /\ IdleStringMap /\ IdleFinish /\ IdleLines
    /\ IdlePerm /\ IdleTabix /\ IdleVcfQuery /\ IdleHeader /\ IdleInfo

VirtualPositionTryFrom ==
    /\ vpResult = NoResult
    /\ vpResult' = VirtualPositionNew(vpCoffset, vpUoffset)
    /\ UNCHANGED <<vpCoffset, vpUoffset, chunkVars, auxVars, recVars,
                   bgzfVars, binVars, midVars, queryVars, int32Vars, smVars,
                   finishVars, lineVars, permVars, tbxVars, vqVars, hdVars,
                   infoVars>>

NextVP == VirtualPositionTryFrom

SpecVP == InitVP /\ [][NextVP]_vars

\* C6: for every coffset < 2^48 and uoffset < 2^16 the virtual position built as
\* (coffset << 16) | uoffset is built without error and splits back into exactly
\* (coffset, uoffset).
C6_SplitOfNew ==
    (vpResult # NoResult /\ FitsIn48(vpCoffset)) =>
        /\ vpResult.ok
        /\ VPCompressed(vpResult.value) = vpCoffset
        /\ VPUncompressed(vpResult.value) = vpUoffset

\* C6 witness: the largest compressed offset, 2^48 - 1, packed with the largest
\* uncompressed offset, 2^16 - 1.
C6_Witness ==
    /\ vpResult # NoResult
    /\ vpCoffset = <<LimbBase - 1, LimbBase - 1, LimbBase - 1, 0>>
    /\ vpUoffset = LimbBase - 1
    /\ vpResult.ok
    /\ vpResult.value = <<LimbBase - 1, LimbBase - 1, LimbBase - 1, LimbBase - 1>>

(***************************************************************************)
(* Integers of fixed width and their little-endian bytes (byteorder).      *)
(***************************************************************************)
MaxI32 == 2147483647
MinI32 == -MaxI32 - 1
MaxU8 == 255
MaxU16 == 65535
MinI8 == -128
MinI16 == -32768

\* `n as u8`, `n as u16` for an i32 n: the low 8 or 16 bits.
AsU8(n) == n % 256

AsU16(n) == n % 65536

\* `n as i8`, `n as i16`: the low bits read as two's complement.
AsI8(n) == ((n + 128) % 256) - 128

AsI16(n) == ((n + 32768) % 65536) - 32768

\* write_u8 / write_i8: one byte.
WriteU8(v) == <<v>>

WriteI8(v) == <<v % 256>>

\* write_u16::<LittleEndian> / write_i16::<LittleEndian>
WriteU16LE(v) == <<v % 256, v \div 256>>

WriteI16LE(v) == <<v % 256, (v \div 256) % 256>>

\* write_i32::<LittleEndian>: the four bytes of the two's complement of v, low
\* byte first (\div rounds down, so the high bytes of a negative v come out right).
WriteI32LE(v) ==
    <<v % 256, (v \div 256) % 256, (v \div 65536) % 256, (v \div 16777216) % 256>>

\* write_u32::<LittleEndian> of `n as u32`, for an i32 n: the same 32 bits.
WriteU32LEOfI32(n) == WriteI32LE(n)

(***************************************************************************)
(* BAM auxiliary integers: write_data_i32_value                            *)
(* (noodles-bam/src/writer/record.rs).                                     *)
(***************************************************************************)
\* `char::from(Type::...) as u8`: the type codes 'C', 'S', 'I', 'c', 's', 'i'.
TypeUInt8 == 67
TypeUInt16 == 83
TypeUInt32 == 73
TypeInt8 == 99
TypeInt16 == 115
TypeInt32 == 105

\* Mutants of write_data_i32_value: 255 is written as a 'S'; a negative value is
\* written with the unsigned code of its width.
write_data_i32_value_Below255(n) ==
    IF n >= 0 THEN
        IF n < MaxU8 THEN <<TypeUInt8>> \o WriteU8(AsU8(n))
        ELSE IF n <= MaxU16 THEN <<TypeUInt16>> \o WriteU16LE(AsU16(n))
        ELSE <<TypeUInt32>> \o WriteU32LEOfI32(n)
    ELSE IF n >= MinI8 THEN <<TypeInt8>> \o WriteI8(AsI8(n))
    ELSE IF n >= MinI16 THEN <<TypeInt16>> \o WriteI16LE(AsI16(n))
    ELSE <<TypeInt32>> \o WriteI32LE(n)

write_data_i32_value_I16AsI32(n) ==
    IF n >= 0 THEN
        IF n <= MaxU8 THEN <<TypeUInt8>> \o WriteU8(AsU8(n))
        ELSE IF n <= MaxU16 THEN <<TypeUInt16>> \o WriteU16LE(AsU16(n))
        ELSE <<TypeUInt32>> \o WriteU32LEOfI32(n)
    ELSE IF n >= MinI8 THEN <<TypeInt8>> \o WriteI8(AsI8(n))
    ELSE IF n > MinI16 THEN <<TypeInt16>> \o WriteI16LE(AsI16(n))
    ELSE <<TypeInt32>> \o WriteI32LE(n)

\* The bytes write_data_i32_value(writer, n) appends to the writer.
write_data_i32_value(n) ==
    IF n >= 0 THEN
        IF n <= MaxU8 THEN <<TypeUInt8>> \o WriteU8(AsU8(n))
        ELSE IF n <= MaxU16 THEN <<TypeUInt16>> \o WriteU16LE(AsU16(n))
        ELSE <<TypeUInt32>> \o WriteU32LEOfI32(n)
    ELSE IF n >= MinI8 THEN <<TypeInt8>> \o WriteI8(AsI8(n))
    ELSE IF n >= MinI16 THEN <<TypeInt16>> \o WriteI16LE(AsI16(n))
    ELSE <<TypeInt32>> \o WriteI32LE(n)

AuxNear == 2
MaxAuxCalls == 2

\* The i32 values tried: those within AuxNear of each end of the range and of
\* each boundary between two widths.
I32Boundaries == {MinI16 - 1, MinI8 - 1, -1, 127, MaxU8, 32767, MaxU16}

I32Samples ==
    {MinI32 + d : d \in 0..AuxNear} \cup {MaxI32 - d : d \in 0..AuxNear} \cup
    UNION {(b - AuxNear)..(b + 1 + AuxNear) : b \in I32Boundaries}

InitAux ==
    /\ auxBuf = <<>>
    /\ auxN = 0
    /\ auxStart = 0
    /\ auxCalls = 0
    /\ IdleChunks /\ IdleVP /\ IdleRec /\ IdleBgzf /\ IdleBin /\ IdleMaxId
    /\ IdleQuery /\ IdleInt32 /\ IdleStringMap /\ IdleFinish /\ IdleLines
    /\ IdlePerm /\ IdleTabix /\ IdleVcfQuery /\ IdleHeader /\ IdleInfo

WriteDataI32Value ==
    /\ auxCalls < MaxAuxCalls
    /\ \E n \in I32Samples :
          /\ auxN' = n
          /\ auxBuf' = auxBuf \o write_data_i32_value(n)
    /\ auxStart' = Len(auxBuf)
    /\ auxCalls' = auxCalls + 1
    /\ UNCHANGED <<chunkVars, vpVars, recVars, bgzfVars, binVars, midVars,
                   queryVars, int32Vars, smVars, finishVars, lineVars,
                   permVars, tbxVars, vqVars, hdVars, infoVars>>

NextAux == WriteDataI32Value

SpecAux == InitAux /\ [][NextAux]_vars

\* The bytes the last call wrote.
AuxWritten == SubSeq(auxBuf, auxStart + 1, Len(auxBuf))

\* The type code the claim gives for n, and the number of value bytes of a code.
AuxCodeFor(n) ==
    CASE 0 <= n /\ n <= 255 -> 67
      [] 256 <= n /\ n <= 65535 -> 83
      [] n >= 65536 -> 73
      [] -128 <= n /\ n <= -1 -> 99
      [] -32768 <= n /\ n <= -129 -> 115
      [] n < -32768 -> 105

AuxWidth(code) ==
    CASE code \in {67, 99} -> 1
      [] code \in {83, 115} -> 2
      [] code \in {73, 105} -> 4

\* Byte k (1 = lowest) of n in little-endian two's complement.
RECURSIVE Pow256(_)
Pow256(k) == IF k = 0 THEN 1 ELSE 256 * Pow256(k - 1)

LEByte(n, k) == (n \div Pow256(k - 1)) % 256

\* C7: write_data_i32_value writes 'C' for 0..=255, 'S' for 256..=65535, 'I' for
\* n >= 65536, 'c' for -128..=-1, 's' for -32768..=-129 and 'i' below, followed
\* by n in little-endian in the 1, 2 or 4 bytes of the code.
C7_NarrowestCode ==
    auxCalls > 0 =>
        /\ Len(AuxWritten) = 1 + AuxWidth(AuxCodeFor(auxN))
        /\ AuxWritten[1] = AuxCodeFor(auxN)
        /\ \A k \in 1..AuxWidth(AuxCodeFor(auxN)) : AuxWritten[1 + k] = LEByte(auxN, k)

\* C7 witness: 65536 written as 'I' 00 00 01 00 after an earlier call.
C7_Witness ==
    /\ auxCalls = 2
    /\ auxStart > 0
    /\ auxN = 65536
    /\ AuxWritten = <<73, 0, 0, 1, 0>>

\* The value a reader decodes from the value bytes under a type code:
\* little-endian, unsigned for C/S/I, two's complement for c/s/i.
AuxDecode(code, bytes) ==
    LET w == Len(bytes)
        top == IF code \in {99, 115, 105} /\ bytes[w] >= 128
               THEN bytes[w] - 256 ELSE bytes[w]
        RECURSIVE Low(_)
        Low(k) == IF k = 0 THEN 0 ELSE Low(k - 1) + bytes[k] * Pow256(k - 1)
    IN  top * Pow256(w - 1) + Low(w - 1)

\* The values a type code can represent.
AuxRepresents(code, n) ==
    CASE code = 67 -> 0 <= n /\ n <= 255
      [] code = 99 -> -128 <= n /\ n <= 127
      [] code = 83 -> 0 <= n /\ n <= 65535
      [] code = 115 -> -32768 <= n /\ n <= 32767
      [] code \in {73, 105} -> TRUE

\* C8: decoding the written value bytes under the written type code yields n, and
\* no type code with fewer value bytes can represent n.
C8_RoundTripMinimal ==
    auxCalls > 0 =>
        LET code == AuxWritten[1]
            bytes == SubSeq(AuxWritten, 2, Len(AuxWritten))
        IN  /\ code \in {67, 83, 73, 99, 115, 105}
            /\ Len(bytes) = AuxWidth(code)
            /\ AuxDecode(code, bytes) = auxN
            /\ \A c \in {67, 83, 73, 99, 115, 105} :
                   AuxWidth(c) < AuxWidth(code) => ~AuxRepresents(c, auxN)

\* C8 witness: i32::MIN, written as 'i' 00 00 00 80, and decoded back.
C8_Witness ==
    /\ auxCalls > 0
    /\ auxN = MinI32
    /\ AuxWritten = <<105, 0, 0, 0, 128>>
    /\ AuxDecode(105, <<0, 0, 0, 128>>) = MinI32

(***************************************************************************)
(* BAM record writer: write_sam_record                                     *)
(* (noodles-bam/src/writer/record.rs).                                     *)
(*                                                                         *)
(* The writer is a Vec<u8>: writing to it never fails, and the bytes       *)
(* written before write_sam_record returns an error stay in it.            *)
(***************************************************************************)
None == [some |-> FALSE]

Some(x) == [some |-> TRUE, v |-> x]

\* A sequence of n copies of b.
Rep(b, n) == [i \in 1..n |-> b]

RECURSIVE Concat(_)
Concat(ss) == IF ss = <<>> THEN <<>> ELSE Head(ss) \o Concat(Tail(ss))

BLOCK_HEADER_SIZE == 32
UNMAPPED_BIN == 4680
NULL_QUALITY_SCORE == 255

\* crate::record::UNMAPPED_POSITION
UNMAPPED_POSITION == -1

\* i32 addition and `end -= 1` as a release build computes them (wrapping), and
\* whether they overflow (a debug build panics there).
AddOverflows(a, b) == (b > 0 /\ a > MaxI32 - b) \/ (b < 0 /\ a < MinI32 - b)

WrappingAdd(a, b) ==
    IF b > 0 /\ a > MaxI32 - b THEN (a - MaxI32 - 1) + (b - MaxI32 - 1)
    ELSE IF b < 0 /\ a < MinI32 - b THEN (a + MaxI32 + 1) + (b + MaxI32 + 1)
    ELSE a + b

\* x >> k on an i32: an arithmetic shift.
RECURSIVE Pow2(_)
Pow2(k) == IF k = 0 THEN 1 ELSE 2 * Pow2(k - 1)

Shr(x, k) == x \div Pow2(k)

\* Mutant of region_to_bin: the first level is compared with a shift of 17.
region_to_bin_SkipsFirstLevel(start, end0) ==
    LET end == WrappingAdd(end0, -1)
    IN  IF Shr(start, 17) = Shr(end, 17) THEN ((Pow2(12) - 1) \div 7) + Shr(start, 17)
        ELSE IF Shr(start, 20) = Shr(end, 20) THEN ((Pow2(9) - 1) \div 7) + Shr(start, 20)
        ELSE IF Shr(start, 23) = Shr(end, 23) THEN ((Pow2(6) - 1) \div 7) + Shr(start, 23)
        ELSE IF Shr(start, 26) = Shr(end, 26) THEN ((Pow2(3) - 1) \div 7) + Shr(start, 26)
        ELSE 0

\* region_to_bin(start, end), 0-based, [start, end).
region_to_bin(start, end0) ==
    LET end == WrappingAdd(end0, -1)
    IN  IF Shr(start, 14) = Shr(end, 14) THEN ((Pow2(15) - 1) \div 7) + Shr(start, 14)
        ELSE IF Shr(start, 17) = Shr(end, 17) THEN ((Pow2(12) - 1) \div 7) + Shr(start, 17)
        ELSE IF Shr(start, 20) = Shr(end, 20) THEN ((Pow2(9) - 1) \div 7) + Shr(start, 20)
        ELSE IF Shr(start, 23) = Shr(end, 23) THEN ((Pow2(6) - 1) \div 7) + Shr(start, 23)
        ELSE IF Shr(start, 26) = Shr(end, 26) THEN ((Pow2(3) - 1) \div 7) + Shr(start, 26)
        ELSE 0

\* CIGAR operations: `op.kind() as u32`, the BAM op codes.
KindCode(kind) ==
    CASE kind = "M" -> 0 [] kind = "I" -> 1 [] kind = "D" -> 2 [] kind = "N" -> 3
      [] kind = "S" -> 4 [] kind = "H" -> 5 [] kind = "P" -> 6 [] kind = "=" -> 7
      [] kind = "X" -> 8

Op(kind, len) == [kind |-> kind, len |-> len]

\* Cigar::reference_len: the sum of the lengths of the operations that consume
\* the reference.
RECURSIVE reference_len(_)
reference_len(cigar) ==
    IF cigar = <<>> THEN 0
    ELSE (IF Head(cigar).kind \in {"M", "D", "N", "=", "X"} THEN Head(cigar).len ELSE 0)
         + reference_len(Tail(cigar))

\* write_cigar: `len << 4 | kind` as a little-endian u32 per operation (the
\* lengths tried are below 2^27, so the shift loses no bit).
write_cigar(cigar) ==
    Concat([i \in 1..Len(cigar) |-> WriteI32LE(cigar[i].len * 16 + KindCode(cigar[i].kind))])

\* Base::from(sam base) as u8: the index of the base in "=ACMGRSVTWYHKDBN".
BaseLetters == <<61, 65, 67, 77, 71, 82, 83, 86, 84, 87, 89, 72, 75, 68, 66, 78>>

BaseCode(b) == (CHOOSE i \in 1..16 : BaseLetters[i] = b) - 1

BaseEq == 0

\* write_seq: two bases per byte, the first in the high nibble; an odd last base
\* is paired with Base::Eq.
write_seq(sequence) ==
    [k \in 1..((Len(sequence) + 1) \div 2) |->
        BaseCode(sequence[2 * k - 1]) * 16 +
        (IF 2 * k <= Len(sequence) THEN BaseCode(sequence[2 * k]) ELSE BaseEq)]

\* write_qual: one byte per score.
write_qual(quality_scores) == [i \in 1..Len(quality_scores) |-> quality_scores[i] % 256]

\* Auxiliary data.  A field is a tag (two bytes) and a value; a value has a kind
\* and a payload v, a sequence: the i32 for Int32, the byte for Char, the four
\* little-endian bytes of the f32 for Float, the bytes of the string for String
\* and Hex, the elements for the integer arrays and the four little-endian
\* bytes of each f32 in turn for FloatArray.
Field(tag, kind, v) == [tag |-> tag, kind |-> kind, v |-> v]

ArrayKinds == {"Int8Array", "UInt8Array", "Int16Array", "UInt16Array",
               "Int32Array", "UInt32Array", "FloatArray"}

\* `char::from(value.ty()) as u8`
TyCode(kind) ==
    CASE kind = "Char" -> 65
      [] kind = "Float" -> 102
      [] kind = "String" -> 90
      [] kind = "Hex" -> 72
      [] kind \in ArrayKinds -> 66

\* `char::from(subtype) as u8`
SubtypeCode(kind) ==
    CASE kind = "Int8Array" -> 99 [] kind = "UInt8Array" -> 67
      [] kind = "Int16Array" -> 115 [] kind = "UInt16Array" -> 83
      [] kind = "Int32Array" -> 105 [] kind = "UInt32Array" -> 73
      [] kind = "FloatArray" -> 102

\* `values.len()` of an array.
ArrayLen(f) == IF f.kind = "FloatArray" THEN Len(f.v) \div 4 ELSE Len(f.v)

\* mem::size_of of an array's element.
ElemSize(kind) ==
    CASE kind \in {"Int8Array", "UInt8Array"} -> 1
      [] kind \in {"Int16Array", "UInt16Array"} -> 2
      [] kind \in {"Int32Array", "UInt32Array", "FloatArray"} -> 4

\* The bytes write_data writes for the elements of an array.
WriteElem(kind, x) ==
    CASE kind = "Int8Array" -> WriteI8(x)
      [] kind = "UInt8Array" -> WriteU8(x)
      [] kind = "Int16Array" -> WriteI16LE(x)
      [] kind = "UInt16Array" -> WriteU16LE(x)
      [] kind \in {"Int32Array", "UInt32Array"} -> WriteI32LE(x)

WriteElems(f) ==
    IF f.kind = "FloatArray" THEN f.v
    ELSE Concat([i \in 1..Len(f.v) |-> WriteElem(f.kind, f.v[i])])

\* The part of calculate_data_len for one field.
FieldLen(f) ==
    2 + 1
    + (IF f.kind \in ArrayKinds THEN 1 + 4 ELSE 0)
    + (CASE f.kind = "Char" -> 1
         [] f.kind = "Int32" ->
              (IF f.v[1] >= 0
               THEN (IF f.v[1] <= MaxU8 THEN 1 ELSE IF f.v[1] <= MaxU16 THEN 2 ELSE 4)
               ELSE IF f.v[1] >= MinI8 THEN 1
               ELSE IF f.v[1] >= MinI16 THEN 2
               ELSE 4)
         [] f.kind = "Float" -> 4
         [] f.kind \in {"String", "Hex"} -> Len(f.v) + 1
         [] f.kind \in ArrayKinds -> ElemSize(f.kind) * ArrayLen(f))

RECURSIVE calculate_data_len(_)
calculate_data_len(data) ==
    IF data = <<>> THEN 0 ELSE FieldLen(Head(data)) + calculate_data_len(Tail(data))

\* The part of write_data for one field: the bytes written and whether the
\* field was written without error (CString::new fails on a NUL in a string,
\* after the tag and the type were written).
WriteField(f) ==
    IF f.kind = "Int32" THEN [bytes |-> f.tag \o write_data_i32_value(f.v[1]), ok |-> TRUE]
    ELSE LET head == f.tag \o <<TyCode(f.kind)>> \o
                     (IF f.kind \in ArrayKinds THEN <<SubtypeCode(f.kind)>> ELSE <<>>)
         IN  CASE f.kind = "Char" -> [bytes |-> head \o WriteU8(f.v[1]), ok |-> TRUE]
               [] f.kind = "Float" -> [bytes |-> head \o f.v, ok |-> TRUE]
               [] f.kind \in {"String", "Hex"} ->
                    IF 0 \in Range(f.v) THEN [bytes |-> head, ok |-> FALSE]
                    ELSE [bytes |-> head \o f.v \o <<0>>, ok |-> TRUE]
               [] f.kind \in ArrayKinds ->
                    [bytes |-> head \o WriteI32LE(ArrayLen(f)) \o WriteElems(f),
                     ok |-> TRUE]

RECURSIVE write_data(_)
write_data(data) ==
    IF data = <<>> THEN [bytes |-> <<>>, ok |-> TRUE]
    ELSE LET first == WriteField(Head(data))
         IN  IF ~first.ok THEN first
             ELSE LET rest == write_data(Tail(data))
                  IN  [bytes |-> first.bytes \o rest.bytes, ok |-> rest.ok]

\* The header's reference sequences, and get_index_of.
ReferenceSequences == <<"sq0", "sq1">>

HasReferenceSequence(name) == \E i \in 1..Len(ReferenceSequences) : ReferenceSequences[i] = name

GetIndexOf(name) == (CHOOSE i \in 1..Len(ReferenceSequences) : ReferenceSequences[i] = name) - 1

\* The outcome of a call: the bytes in the writer and the error, if any.
Outcome(out, err) == [called |-> TRUE, out |-> out, err |-> err]

\* Mutant of WriteQualAndData: quality scores shorter than the sequence are
\* written as they are.
WriteQualAndData_ShortScoresWritten(r, written) ==
    LET n_seq == Len(r.sequence)
        n_qual == Len(r.quality_scores)
    IN  IF n_seq < n_qual THEN Outcome(written, "InvalidInput")
        ELSE LET qual == IF n_seq > n_qual /\ n_qual = 0 THEN Rep(NULL_QUALITY_SCORE, n_seq)
                         ELSE write_qual(r.quality_scores)
                 data == write_data(r.data)
             IN  Outcome(written \o qual \o data.bytes,
                         IF data.ok THEN "none" ELSE "InvalidInput")

\* Lines 126-158: the quality scores and the data, after `written`.
WriteQualAndData(r, written) ==
    LET n_seq == Len(r.sequence)
        n_qual == Len(r.quality_scores)
    IN  IF n_seq < n_qual THEN Outcome(written, "InvalidInput")
        ELSE IF n_seq > n_qual /\ n_qual # 0 THEN Outcome(written, "InvalidInput")
        ELSE LET qual == IF n_seq > n_qual THEN Rep(NULL_QUALITY_SCORE, n_seq)
                         ELSE write_qual(r.quality_scores)
                 data == write_data(r.data)
             IN  Outcome(written \o qual \o data.bytes,
                         IF data.ok THEN "none" ELSE "InvalidInput")

\* Lines 90-99: the values `bin` can take.  `start + reference_len` overflows
\* an i32 for a position near i32::MAX: a debug build panics and a release
\* build wraps.
BinOutcomes(r) ==
    IF ~r.position.some THEN {[panic |-> FALSE, bin |-> UNMAPPED_BIN]}
    ELSE LET start == r.position.v
             ref_len == reference_len(r.cigar)
             bin == AsU16(region_to_bin(start, WrappingAdd(start, ref_len)))
         IN  IF AddOverflows(start, ref_len) \/ WrappingAdd(start, ref_len) = MinI32
             THEN {[panic |-> TRUE, bin |-> 0], [panic |-> FALSE, bin |-> bin]}
             ELSE {[panic |-> FALSE, bin |-> bin]}

\* Every outcome of write_sam_record(writer, reference_sequences, r) on an
\* empty writer.
WriteSamRecordOutcomes(r) ==
    LET name == IF r.read_name.some THEN r.read_name.v ELSE <<42>>
    IN  IF 0 \in Range(name) THEN {Outcome(<<>>, "InvalidInput")}
        ELSE IF r.reference_sequence_name.some
                /\ ~HasReferenceSequence(r.reference_sequence_name.v)
        THEN {Outcome(<<>>, "InvalidInput")}
        ELSE IF r.mate_reference_sequence_name.some
                /\ ~HasReferenceSequence(r.mate_reference_sequence_name.v)
        THEN {Outcome(<<>>, "InvalidInput")}
        ELSE
        LET reference_sequence_id ==
                IF r.reference_sequence_name.some
                THEN GetIndexOf(r.reference_sequence_name.v) ELSE -1
            mate_reference_sequence_id ==
                IF r.mate_reference_sequence_name.some
                THEN GetIndexOf(r.mate_reference_sequence_name.v) ELSE -1
            read_name == name \o <<0>>
            l_read_name == AsU8(Len(read_name))
            n_cigar_op == AsU16(Len(r.cigar))
            l_seq == Len(r.sequence)
            data_len == calculate_data_len(r.data)
            block_size == BLOCK_HEADER_SIZE + l_read_name + (4 * n_cigar_op)
                          + ((l_seq + 1) \div 2) + l_seq + data_len
            pos == IF r.position.some THEN r.position.v - 1 ELSE UNMAPPED_POSITION
            next_pos == IF r.mate_position.some THEN r.mate_position.v - 1
                        ELSE UNMAPPED_POSITION
            first == WriteI32LE(block_size) \o WriteI32LE(reference_sequence_id)
                     \o WriteI32LE(pos) \o WriteU8(l_read_name)
                     \o WriteU8(r.mapping_quality)
            After(bin) ==
                first \o WriteU16LE(bin) \o WriteU16LE(n_cigar_op) \o WriteU16LE(r.flags)
                \o WriteI32LE(l_seq) \o WriteI32LE(mate_reference_sequence_id)
                \o WriteI32LE(next_pos) \o WriteI32LE(r.template_length)
                \o read_name \o write_cigar(r.cigar) \o write_seq(r.sequence)
        IN  {IF b.panic THEN Outcome(first, "panic")
             ELSE WriteQualAndData(r, After(b.bin)) : b \in BinOutcomes(r)}

\* The records tried.
MaxCigarOps == 1
MaxSeqLen == 2

ReadNames == {None, Some(<<65>>), Some(Rep(65, 254)), Some(Rep(65, 255)), Some(<<65, 0>>)}

\* (reference sequence name, mate reference sequence name, mate position)
Mates == {<<None, None, None>>,
          <<Some("sq1"), Some("sq0"), Some(7)>>,
          <<Some("sq2"), None, None>>,
          <<Some("sq0"), Some("sq2"), Some(7)>>}

Positions == {None, Some(1), Some(16384), Some(536870912), Some(MaxI32)}

CigarOps == {Op("M", 1), Op("I", 2), Op("D", 16384)}

Cigars == SeqsUpTo(CigarOps, MaxCigarOps)

BasePattern == <<65, 78, 61, 84>>

ScorePattern == <<30, 0, 93, 40>>

Sequences == {SubSeq(BasePattern, 1, l) : l \in 0..MaxSeqLen}

QualityScores == {SubSeq(ScorePattern, 1, l) : l \in 0..(MaxSeqLen + 1)}

Datas == {
    <<>>,
    <<Field(<<78, 72>>, "Char", <<65>>)>>,
    <<Field(<<78, 77>>, "Int32", <<-129>>)>>,
    <<Field(<<88, 70>>, "Float", <<0, 0, 128, 63>>), Field(<<82, 71>>, "String", <<97, 98>>)>>,
    <<Field(<<88, 72>>, "Hex", <<49, 70>>), Field(<<88, 97>>, "Int8Array", <<-1>>)>>,
    <<Field(<<88, 98>>, "UInt8Array", <<1, 255>>), Field(<<88, 99>>, "Int16Array", <<-2>>)>>,
    <<Field(<<88, 100>>, "UInt16Array", <<65535>>), Field(<<88, 101>>, "Int32Array", <<MinI32, 5>>),
      Field(<<88, 102>>, "UInt32Array", <<70000>>),
      Field(<<88, 103>>, "FloatArray", <<0, 0, 128, 63, 0, 0, 0, 0>>)>>,
    <<Field(<<78, 77>>, "Int32", <<65536>>), Field(<<82, 71>>, "String", <<97, 0>>)>>
}

Records ==
    {[read_name |-> n, reference_sequence_name |-> m[1], position |-> p,
      mapping_quality |-> 60, cigar |-> c, mate_reference_sequence_name |-> m[2],
      mate_position |-> m[3], template_length |-> -3, flags |-> 99,
      sequence |-> s, quality_scores |-> q, data |-> d] :
        n \in ReadNames, m \in Mates, p \in Positions, c \in Cigars,
        s \in Sequences, q \in QualityScores, d \in Datas}

InitRec ==
    /\ rec \in Records
    /\ recResult = NoResult
    /\ IdleChunks /\ IdleVP /\ IdleAux /\ IdleBgzf /\ IdleBin /\ IdleMaxId
    /\ IdleQuery /\ IdleInt32 /\ IdleStringMap /\ IdleFinish /\ IdleLines
    /\ IdlePerm /\ IdleTabix /\ IdleVcfQuery /\ IdleHeader /\ IdleInfo

write_sam_record ==
    /\ recResult = NoResult
    /\ \E o \in WriteSamRecordOutcomes(rec) : recResult' = o
    /\ UNCHANGED <<rec, chunkVars, vpVars, auxVars, bgzfVars, binVars,
                   midVars, queryVars, int32Vars, smVars, finishVars,
                   lineVars, permVars, tbxVars, vqVars, hdVars, infoVars>>

NextRec == write_sam_record

SpecRec == InitRec /\ [][NextRec]_vars

(***************************************************************************)
(* Claims about the BAM record writer.                                     *)
(***************************************************************************)
RecOut == recResult.out

RecWritten == recResult # NoResult /\ recResult.err = "none"

\* The fields of the written record, read back from the bytes at their offsets
\* in the BAM layout (little-endian).
DecodeU16LE(bytes) == bytes[1] + 256 * bytes[2]

DecodeI32LE(bytes) ==
    bytes[1] + 256 * bytes[2] + 65536 * bytes[3]
    + 16777216 * (IF bytes[4] >= 128 THEN bytes[4] - 256 ELSE bytes[4])

FieldBlockSize == DecodeI32LE(SubSeq(RecOut, 1, 4))
FieldPos == DecodeI32LE(SubSeq(RecOut, 9, 12))
FieldLReadName == RecOut[13]
FieldBin == DecodeU16LE(SubSeq(RecOut, 15, 16))
FieldNCigarOp == DecodeU16LE(SubSeq(RecOut, 17, 18))
FieldLSeq == DecodeI32LE(SubSeq(RecOut, 21, 24))

\* The read-name bytes of the record, with the NUL: the name, or "*".
RecNameBytes == (IF rec.read_name.some THEN Len(rec.read_name.v) ELSE 1) + 1

\* The size of the auxiliary data in the BAM layout: tag, type and value per
\* field; an array has a subtype and a 32-bit count before its elements.
AuxValueSize(f) ==
    CASE f.kind = "Char" -> 1
      [] f.kind = "Int32" -> AuxWidth(AuxCodeFor(f.v[1]))
      [] f.kind = "Float" -> 4
      [] f.kind \in {"String", "Hex"} -> Len(f.v) + 1
      [] f.kind \in {"Int8Array", "UInt8Array"} -> 5 + Len(f.v)
      [] f.kind \in {"Int16Array", "UInt16Array"} -> 5 + 2 * Len(f.v)
      [] f.kind \in {"Int32Array", "UInt32Array"} -> 5 + 4 * Len(f.v)
      [] f.kind = "FloatArray" -> 5 + Len(f.v)

RECURSIVE AuxSize(_)
AuxSize(data) == IF data = <<>> THEN 0 ELSE 3 + AuxValueSize(Head(data)) + AuxSize(Tail(data))

RecBodySize ==
    32 + RecNameBytes + 4 * Len(rec.cigar) + ((Len(rec.sequence) + 1) \div 2)
    + Len(rec.sequence) + AuxSize(rec.data)

\* C9: for every record written successfully, block_size equals the number of
\* bytes written after it, 32 + name bytes with the NUL + 4 per CIGAR op +
\* (l_seq+1)/2 + l_seq + auxiliary bytes, whatever the read-name length and the
\* number of CIGAR ops, and l_read_name and n_cigar_op equal the numbers of
\* name bytes and ops written.
C9_BlockSize ==
    RecWritten =>
        /\ FieldBlockSize = Len(RecOut) - 4
        /\ Len(RecOut) - 4 = RecBodySize
        /\ FieldLReadName = RecNameBytes
        /\ FieldNCigarOp = Len(rec.cigar)

\* The same for the records whose counts fit their fields (a read name of at
\* most 254 bytes, at most 65535 CIGAR ops): there the code agrees with C9.
C9_WhenCountsFit ==
    (RecWritten /\ RecNameBytes <= 255 /\ Len(rec.cigar) <= 65535) =>
        /\ FieldBlockSize = Len(RecOut) - 4
        /\ Len(RecOut) - 4 = RecBodySize
        /\ FieldLReadName = RecNameBytes
        /\ FieldNCigarOp = Len(rec.cigar)

\* The end of the addressable range of the binning scheme, 2^29.
MaxBinPosition == 536870912

\* C10: for a record with a position, the bin field is
\* reg2bin(pos, pos + reference_len) with pos the 0-based value of the pos
\* field; without a position the bin field is 4680 and pos is -1.  (Stated for
\* the records that span at least one reference base and lie in the addressable
\* range of the bins.)
C10_BinOfZeroBasedPos ==
    RecWritten =>
        IF rec.position.some
        THEN /\ FieldPos = rec.position.v - 1
             /\ ((reference_len(rec.cigar) > 0
                  /\ FieldPos <= MaxBinPosition - reference_len(rec.cigar)) =>
                    FieldBin = region_to_bin(FieldPos, FieldPos + reference_len(rec.cigar)))
        ELSE FieldBin = 4680 /\ FieldPos = -1

\* What the code writes instead: the bin of the 1-based position,
\* region_to_bin(pos + 1, pos + 1 + reference_len).
C10_BinOfOneBasedPos ==
    RecWritten =>
        IF rec.position.some
        THEN /\ FieldPos = rec.position.v - 1
             /\ (FieldPos < MaxBinPosition - reference_len(rec.cigar) =>
                    FieldBin = region_to_bin(FieldPos + 1,
                                             FieldPos + 1 + reference_len(rec.cigar)))
        ELSE FieldBin = 4680 /\ FieldPos = -1

(***************************************************************************)
(* BGZF writer and reader (noodles-bgzf writer, reader, block, gz).        *)
(*                                                                         *)
(* A block is a gzip member: an 18-byte header that ends with BSIZE (the   *)
(* length of the block minus one), the DEFLATE data, and a trailer of      *)
(* CRC32 and ISIZE.  DEFLATE is the compression library's: it is modelled  *)
(* by its stored (uncompressed) block form, and CRC32 by a short checksum. *)
(***************************************************************************)
\* gz::HEADER_SIZE: ID1, ID2, CM, FLG, MTIME (4), XFL, OS
GZ_HEADER_SIZE == 10
GZIP_XLEN_SIZE == 2
BGZF_XLEN == 6
BGZF_HEADER_SIZE == GZ_HEADER_SIZE + GZIP_XLEN_SIZE + BGZF_XLEN

\* CRC32 (4) + ISIZE (4)
GZ_TRAILER_SIZE == 8

\* The block size at which the writer emits its buffer (65280 in the library;
\* small here, so that writes fill and cross blocks).
BlockCapacity == 3
MaxWritten == 4
MaxFlushes == 2
MaxFinishCalls == 2

\* The bytes written: '\n' and 'A'.
BgBytes == {10, 65}

\* 1f 8b 08 04, MTIME, XFL, OS, XLEN = 6, "BC", SLEN = 2
BlockHeaderPrefix == <<31, 139, 8, 4, 0, 0, 0, 0, 0, 255, 6, 0, 66, 67, 2, 0>>

\* The 28-byte end-of-file marker.
EOF_BLOCK == <<31, 139, 8, 4, 0, 0, 0, 0, 0, 255, 6, 0, 66, 67, 2, 0, 27, 0,
               3, 0, 0, 0, 0, 0, 0, 0, 0, 0>>

\* DEFLATE of data: the empty stream for no data, else one stored block (BFINAL
\* = 1, BTYPE = 00, LEN, NLEN = ~LEN, the bytes).
Deflate(data) ==
    IF data = <<>> THEN <<3, 0>>
    ELSE <<1>> \o WriteU16LE(Len(data)) \o WriteU16LE(65535 - Len(data)) \o data

\* The inverse, on any bytes: ok is FALSE for what is not such a stream.
Inflate(cdata) ==
    IF cdata = <<3, 0>> THEN [ok |-> TRUE, data |-> <<>>]
    ELSE IF Len(cdata) < 5 \/ cdata[1] # 1 THEN [ok |-> FALSE, data |-> <<>>]
    ELSE LET len == cdata[2] + 256 * cdata[3]
             nlen == cdata[4] + 256 * cdata[5]
         IN  IF len + nlen # 65535 \/ Len(cdata) # 5 + len
             THEN [ok |-> FALSE, data |-> <<>>]
             ELSE [ok |-> TRUE, data |-> SubSeq(cdata, 6, Len(cdata))]

\* The checksum of the trailer, four bytes (0 for no data, as CRC32).
RECURSIVE Checksum(_, _)
Checksum(data, h) ==
    IF data = <<>> THEN h ELSE Checksum(Tail(data), (h * 31 + Head(data) + 1) % 65521)

Crc(data) == WriteI32LE(Checksum(data, 0))

\* Mutant of BSize: the length of the block, not the length minus one.
BSize_TotalLength(total) == total

\* BSIZE: the total block size minus one.
BSize(total) == total - 1

\* The block the writer emits for the bytes of its buffer.
Block(data) ==
    LET cdata == Deflate(data)
        total == BGZF_HEADER_SIZE + Len(cdata) + GZ_TRAILER_SIZE
    IN  BlockHeaderPrefix \o WriteU16LE(BSize(total)) \o cdata \o Crc(data)
        \o WriteI32LE(Len(data))

\* The state of a writer: its buffer and its sink.
\* write: buffer as much of `data` as the block has room for and emit the block
\* when it is full; write_all: until all of `data` is taken.
RECURSIVE WriteAllTo(_, _)
WriteAllTo(w, data) ==
    IF data = <<>> THEN w
    ELSE LET n == IF Len(data) < BlockCapacity - Len(w.buf)
                  THEN Len(data) ELSE BlockCapacity - Len(w.buf)
             buf == w.buf \o SubSeq(data, 1, n)
             rest == SubSeq(data, n + 1, Len(data))
         IN  IF Len(buf) >= BlockCapacity
             THEN WriteAllTo([buf |-> <<>>, sink |-> w.sink \o Block(buf)], rest)
             ELSE WriteAllTo([buf |-> buf, sink |-> w.sink], rest)

\* flush: emit the current block, even if partial.  Whether a flush of an empty
\* buffer emits an empty block is not fixed: both are outcomes.
FlushOutcomes(w) ==
    IF w.buf = <<>> THEN {w, [buf |-> <<>>, sink |-> w.sink \o Block(<<>>)]}
    ELSE {[buf |-> <<>>, sink |-> w.sink \o Block(w.buf)]}

\* finish: emit the current block if it holds data, then the EOF block.
FinishOf(w) ==
    [buf |-> <<>>,
     sink |-> (IF w.buf = <<>> THEN w.sink ELSE w.sink \o Block(w.buf)) \o EOF_BLOCK]

\* Mutant of TryFinishOf: every call emits the EOF block.
TryFinishOf_EveryCall(w, finished) == FinishOf(w)

\* try_finish: finish, once; a call on a finished writer leaves it as it is.
TryFinishOf(w, finished) == IF finished THEN w ELSE FinishOf(w)

\* The reader: read the block at the 1-based offset `at` of `src`.
ReadBlock(src, at) ==
    LET left == Len(src) - at + 1
    IN  IF left < BGZF_HEADER_SIZE THEN [ok |-> FALSE, err |-> "UnexpectedEof"]
        ELSE IF SubSeq(src, at, at + 15) # BlockHeaderPrefix
        THEN [ok |-> FALSE, err |-> "InvalidData"]
        ELSE LET total == src[at + 16] + 256 * src[at + 17] + 1
             IN  IF total < BGZF_HEADER_SIZE + GZ_TRAILER_SIZE
                 THEN [ok |-> FALSE, err |-> "InvalidData"]
                 ELSE IF total > left THEN [ok |-> FALSE, err |-> "UnexpectedEof"]
                 ELSE LET cdata == SubSeq(src, at + BGZF_HEADER_SIZE,
                                          at + total - GZ_TRAILER_SIZE - 1)
                          crc == SubSeq(src, at + total - 8, at + total - 5)
                          isize == SubSeq(src, at + total - 4, at + total - 1)
                          inflated == Inflate(cdata)
                      IN  IF ~inflated.ok THEN [ok |-> FALSE, err |-> "InvalidData"]
                          ELSE IF crc # Crc(inflated.data)
                          THEN [ok |-> FALSE, err |-> "Checksum"]
                          ELSE IF isize # WriteI32LE(Len(inflated.data))
                          THEN [ok |-> FALSE, err |-> "InvalidData"]
                          ELSE [ok |-> TRUE, data |-> inflated.data, size |-> total]

\* read_to_end: the data of the blocks in turn, up to the end of the source.
RECURSIVE ReadToEndFrom(_, _, _, _)
ReadToEndFrom(src, at, data, blocks) ==
    IF at > Len(src) THEN [called |-> TRUE, ok |-> TRUE, data |-> data, blocks |-> blocks]
    ELSE LET b == ReadBlock(src, at)
         IN  IF ~b.ok THEN [called |-> TRUE, ok |-> FALSE, data |-> data, blocks |-> blocks]
             ELSE ReadToEndFrom(src, at + b.size, data \o b.data, blocks + 1)

\* The reader of lines.  `pos` is the 0-based offset in the source of the
\* next block, `coffset` that of the block held, `uoffset` the cursor in it.
NewReader == [ok |-> TRUE, pos |-> 0, coffset |-> 0, block |-> <<>>, uoffset |-> 0]

\* fill_buf: when the block held is used up, read the next blocks up to one
\* that holds data or to the end of the source.
RECURSIVE FillBuf(_, _)
FillBuf(src, r) ==
    IF ~r.ok \/ r.uoffset < Len(r.block) \/ r.pos >= Len(src) THEN r
    ELSE LET b == ReadBlock(src, r.pos + 1)
         IN  IF ~b.ok THEN [r EXCEPT !.ok = FALSE]
             ELSE FillBuf(src, [ok |-> TRUE, pos |-> r.pos + b.size, coffset |-> r.pos,
                                block |-> b.data, uoffset |-> 0])

\* read_line: the bytes up to and including the next '\n', or up to the end of
\* the data; the cursor moves past them.
RECURSIVE ReadLineFrom(_, _, _)
ReadLineFrom(src, r, acc) ==
    LET f == FillBuf(src, r)
        avail == SubSeq(f.block, f.uoffset + 1, Len(f.block))
    IN  IF ~f.ok \/ avail = <<>> THEN [reader |-> f, line |-> acc]
        ELSE IF \E i \in 1..Len(avail) : avail[i] = 10
        THEN LET i == CHOOSE i \in 1..Len(avail) :
                        avail[i] = 10 /\ \A j \in 1..(i - 1) : avail[j] # 10
             IN  [reader |-> [f EXCEPT !.uoffset = @ + i],
                  line |-> acc \o SubSeq(avail, 1, i)]
        ELSE ReadLineFrom(src, [f EXCEPT !.uoffset = Len(f.block)], acc \o avail)

read_line(src, r) == ReadLineFrom(src, r, <<>>)

\* virtual_position: (the offset of the block held, the cursor in it).
virtual_position(r) == <<r.coffset, r.uoffset>>

\* Mutant of seek: the cursor is left at the start of the block.
seek_ToBlockStart(src, vpos) ==
    LET b == ReadBlock(src, vpos[1] + 1)
    IN  IF ~b.ok THEN [NewReader EXCEPT !.ok = FALSE]
        ELSE [ok |-> TRUE, pos |-> vpos[1] + b.size, coffset |-> vpos[1],
              block |-> b.data, uoffset |-> 0]

\* seek(vpos): read the block at the compressed offset and set the cursor to
\* the uncompressed offset.
seek(src, vpos) ==
    LET b == ReadBlock(src, vpos[1] + 1)
    IN  IF ~b.ok THEN [NewReader EXCEPT !.ok = FALSE]
        ELSE [ok |-> TRUE, pos |-> vpos[1] + b.size, coffset |-> vpos[1],
              block |-> b.data, uoffset |-> vpos[2]]

InitBgzf ==
    /\ bgData = <<>>
    /\ wBuf = <<>>
    /\ wSink = <<>>
    /\ wFinished = FALSE
    /\ wFlushes = 0
    /\ wFinishCalls = 0
    /\ rdResult = NoResult
    /\ rd = NewReader
    /\ rdLines = <<>>
    /\ rdEof = FALSE
    /\ rdReread = NoResult
    /\ IdleChunks /\ IdleVP /\ IdleAux /\ IdleRec /\ IdleBin /\ IdleMaxId
    /\ IdleQuery /\ IdleInt32 /\ IdleStringMap /\ IdlePerm /\ IdleTabix
    /\ IdleVcfQuery /\ IdleHeader /\ IdleInfo

WriterWriteAll ==
    /\ ~wFinished
    /\ \E data \in SeqsUpTo(BgBytes, MaxWritten - Len(bgData)) :
          LET w == WriteAllTo([buf |-> wBuf, sink |-> wSink], data)
          IN  /\ data # <<>>
              /\ bgData' = bgData \o data
              /\ wBuf' = w.buf
              /\ wSink' = w.sink
    /\ UNCHANGED <<wFinished, wFlushes, rdResult, chunkVars, vpVars, auxVars,
                   recVars, binVars, midVars, queryVars, int32Vars, smVars,
                   finishVars, lineVars, permVars, tbxVars, vqVars, hdVars,
                   infoVars>>

WriterFlush ==
    /\ ~wFinished
    /\ wFlushes < MaxFlushes
    /\ \E w \in FlushOutcomes([buf |-> wBuf, sink |-> wSink]) :
          wBuf' = w.buf /\ wSink' = w.sink
    /\ wFlushes' = wFlushes + 1
    /\ UNCHANGED <<bgData, wFinished, rdResult, chunkVars, vpVars, auxVars,
                   recVars, binVars, midVars, queryVars, int32Vars, smVars,
                   finishVars, lineVars, permVars, tbxVars, vqVars, hdVars,
                   infoVars>>

WriterFinish ==
    /\ wFinishCalls < MaxFinishCalls
    /\ LET w == TryFinishOf([buf |-> wBuf, sink |-> wSink], wFinished)
       IN  wBuf' = w.buf /\ wSink' = w.sink
    /\ wFinished' = TRUE
    /\ wFinishCalls' = wFinishCalls + 1
    /\ UNCHANGED <<bgData, wFlushes, rdResult, chunkVars, vpVars, auxVars,
                   recVars, binVars, midVars, queryVars, int32Vars, smVars,
                   lineVars, permVars, tbxVars, vqVars, hdVars, infoVars>>

ReaderReadToEnd ==
    /\ wFinished
    /\ rdResult = NoResult
    /\ rdResult' = ReadToEndFrom(wSink, 1, <<>>, 0)
    /\ UNCHANGED <<bgData, wBuf, wSink, wFinished, wFlushes,
                   chunkVars, vpVars, auxVars, recVars, binVars, midVars, queryVars, int32Vars, smVars, finishVars, lineVars,
                   permVars, tbxVars, vqVars, hdVars, infoVars>>

\* One turn of the loop of test_self_buffered: observe the virtual position,
\* then read a line.
ReaderReadLine ==
    /\ wFinished
    /\ ~rdEof
    /\ rdReread = NoResult
    /\ LET res == read_line(wSink, rd)
       IN  /\ rd' = res.reader
           /\ IF res.line = <<>>
              THEN rdEof' = TRUE /\ rdLines' = rdLines
              ELSE /\ rdEof' = FALSE
                   /\ rdLines' = Append(rdLines, [vpos |-> virtual_position(rd),
                                                  line |-> res.line])
    /\ UNCHANGED <<bgData, wBuf, wSink, wFinished, wFlushes, rdResult, rdReread,
                   chunkVars, vpVars, auxVars, recVars, binVars, midVars, queryVars,
                   int32Vars, smVars, finishVars, permVars, tbxVars, vqVars,
                   hdVars, infoVars>>

\* Seek to a recorded virtual position and read a line.
ReaderSeekReadLine ==
    /\ wFinished
    /\ rdReread = NoResult
    /\ \E k \in 1..Len(rdLines) :
          LET res == read_line(wSink, seek(wSink, rdLines[k].vpos))
          IN  /\ rd' = res.reader
              /\ rdReread' = [called |-> TRUE, k |-> k, line |-> res.line]
    /\ UNCHANGED <<bgData, wBuf, wSink, wFinished, wFlushes, rdResult, rdLines, rdEof,
                   chunkVars, vpVars, auxVars, recVars, binVars, midVars, queryVars,
                   int32Vars, smVars, finishVars, permVars, tbxVars, vqVars,
                   hdVars, infoVars>>

NextBgzf ==
    \/ WriterWriteAll \/ WriterFlush \/ WriterFinish \/ ReaderReadToEnd
    \/ ReaderReadLine \/ ReaderSeekReadLine

SpecBgzf == InitBgzf /\ [][NextBgzf]_vars

\* C5: whatever write_all and flush calls wrote X before finish, reading the
\* produced bytes to the end yields exactly X.
C5_ReadOfWrite ==
    rdResult # NoResult => (rdResult.ok /\ rdResult.data = bgData)

\* C5 witness: data that filled one block and part of another, with a flush of
\* a partial block, read back from at least three data blocks and the EOF block.
C5_Witness ==
    /\ rdResult # NoResult
    /\ rdResult.ok
    /\ Len(bgData) = MaxWritten
    /\ rdResult.data = bgData
    /\ wFlushes > 0
    /\ rdResult.blocks >= 4

\* C5 witness for the empty string: nothing written, one EOF block read.
C5_WitnessEmpty ==
    rdResult # NoResult /\ rdResult.ok /\ bgData = <<>> /\ wSink = EOF_BLOCK

(***************************************************************************)
(* Bins (noodles-csi index/reference_sequence.rs and bin.rs; region_to_bin *)
(* of noodles-bam writer/record.rs).                                       *)
(***************************************************************************)
\* The outcome of a call that can panic.
Panic(why) == [panic |-> TRUE, why |-> why, v |-> 0]
Returns(v) == [panic |-> FALSE, why |-> "", v |-> v]

\* 1 << k on an i32.  A shift by 32 or more (or a negative one) overflows: a
\* panic in a build with overflow checks, and a shift by k % 32 without them.
ShlOneOutcomes(k) ==
    IF k >= 0 /\ k < 31 THEN {Returns(Pow2(k))}
    ELSE IF k = 31 THEN {Returns(MinI32)}
    ELSE {Panic("shift overflow"),
          IF k % 32 = 31 THEN Returns(MinI32) ELSE Returns(Pow2(k % 32))}

\* a / b on i32 with b > 0: the quotient is rounded towards zero.
DivI32(a, b) == IF a >= 0 THEN a \div b ELSE (a + b - 1) \div b

\* bin_limit(depth): assert!(depth <= 10); (1 << ((depth + 1) * 3)) / 7
bin_limit(depth) ==
    IF ~(depth <= 10) THEN {Panic("assertion failed: depth <= 10")}
    ELSE {IF o.panic THEN o ELSE Returns(DivI32(o.v, 7)) :
            o \in ShlOneOutcomes((depth + 1) * 3)}

\* Bin::max_id(depth): bin_limit(depth) as u32 (the values here are >= 0).
max_id(depth) == bin_limit(depth)

\* Bin::metadata_id(depth): Self::max_id(depth) + 1
metadata_id(depth) ==
    {IF o.panic THEN o ELSE Returns(o.v + 1) : o \in max_id(depth)}

\* reg2bins: the ids b..=e that levels l..depth set, one interval per level.
RECURSIVE Reg2BinsFrom(_, _, _, _, _, _)
Reg2BinsFrom(beg, end, l, t, s, depth) ==
    IF ~(l <= depth) THEN <<>>
    ELSE <<[b |-> t + Shr(beg, s), e |-> t + Shr(end, s)]>>
         \o Reg2BinsFrom(beg, end, l + 1, t + Pow2(l * 3), s - 3, depth)

\* Mutant of reg2bins: the walk stops one level early.
reg2bins_StopsEarly(beg, end, min_shift, depth) ==
    Reg2BinsFrom(beg, end, 0, 0, min_shift + depth * 3, depth - 1)

reg2bins(beg, end, min_shift, depth) ==
    Reg2BinsFrom(beg, end, 0, 0, min_shift + depth * 3, depth)

\* bins.set(i as usize, true) for the i of every level, on a BitVec of `len`
\* bits: an index outside the vector is a panic.
SetBits(levels, len) ==
    IF \E k \in 1..Len(levels) :
          levels[k].b <= levels[k].e /\ (levels[k].b < 0 \/ levels[k].e >= len)
    THEN [called |-> TRUE, panic |-> TRUE, levels |-> <<>>]
    ELSE [called |-> TRUE, panic |-> FALSE, levels |-> levels]

\* region_bins[i]
IsSet(marks, i) == \E k \in 1..Len(marks.levels) :
                      marks.levels[k].b <= i /\ i <= marks.levels[k].e

\* The fixed scheme of BAM and tabix.
MIN_SHIFT == 14
DEPTH == 5

\* How far from a bin boundary the intervals tried start and end.
BinNear == 1

MaxPosition == Pow2(MIN_SHIFT + 3 * DEPTH)

BinBoundaries ==
    {0, MaxPosition} \cup
    {k * Pow2(MIN_SHIFT + 3 * j) : k \in {1, 3}, j \in 0..(DEPTH - 1)}

BinPositions ==
    {p \in {b + d : b \in BinBoundaries, d \in (-BinNear)..BinNear} \cup
           {7, 13, 63245985, 63255986} :
        0 <= p /\ p <= MaxPosition}

InitBin ==
    /\ \/ binStart = -1 /\ binEnd = 0
       \/ binStart \in BinPositions /\ binEnd \in BinPositions /\ binStart < binEnd
    /\ binResult = NoResult
    /\ binMarks = NoResult
    /\ IdleChunks /\ IdleVP /\ IdleAux /\ IdleRec /\ IdleBgzf /\ IdleMaxId
    /\ IdleQuery /\ IdleInt32 /\ IdleStringMap /\ IdleFinish /\ IdleLines
    /\ IdlePerm /\ IdleTabix /\ IdleVcfQuery /\ IdleHeader /\ IdleInfo

RegionToBin ==
    /\ binResult = NoResult
    /\ binResult' = [called |-> TRUE, bin |-> region_to_bin(binStart, binEnd)]
    /\ UNCHANGED <<binStart, binEnd, binMarks, chunkVars, vpVars, auxVars,
                   recVars, bgzfVars, midVars, queryVars, int32Vars, smVars,
                   finishVars, lineVars, permVars, tbxVars, vqVars, hdVars,
                   infoVars>>

\* reg2bins on the vector that its caller, query, makes for the fixed scheme.
Reg2Bins ==
    /\ binMarks = NoResult
    /\ \E len \in max_id(DEPTH) :
          /\ ~len.panic
          /\ binMarks' = SetBits(reg2bins(binStart, binEnd, MIN_SHIFT, DEPTH), len.v)
    /\ UNCHANGED <<binStart, binEnd, binResult, chunkVars, vpVars, auxVars,
                   recVars, bgzfVars, midVars, queryVars, int32Vars, smVars,
                   finishVars, lineVars, permVars, tbxVars, vqVars, hdVars,
                   infoVars>>

NextBin == RegionToBin \/ Reg2Bins

SpecBin == InitBin /\ [][NextBin]_vars

\* The bins of a scheme: level l (0 = the whole range) holds 8^l bins whose ids
\* start at (8^l - 1) / 7, each of 2^(min_shift + 3 * (depth - l)) positions.
LevelOffset(l) == (Pow2(3 * l) - 1) \div 7
LevelOf(id, depth) == CHOOSE l \in 0..depth :
                         LevelOffset(l) <= id /\ id < LevelOffset(l + 1)
BinSize(l, min_shift, depth) == Pow2(min_shift + 3 * (depth - l))
BinLo(id, min_shift, depth) ==
    (id - LevelOffset(LevelOf(id, depth))) * BinSize(LevelOf(id, depth), min_shift, depth)
BinHi(id, min_shift, depth) ==
    BinLo(id, min_shift, depth) + BinSize(LevelOf(id, depth), min_shift, depth)
IsBinId(id, depth) == 0 <= id /\ id < LevelOffset(depth + 1)

\* The bin of [start, end) by the claim's formula.
Shifts == <<14, 17, 20, 23, 26>>
ShiftMatches(start, end, k) == Shr(start, k) = Shr(end - 1, k)
FirstMatch(start, end) ==
    IF \E i \in 1..Len(Shifts) : ShiftMatches(start, end, Shifts[i])
    THEN LET i == CHOOSE i \in 1..Len(Shifts) :
                    /\ ShiftMatches(start, end, Shifts[i])
                    /\ \A j \in 1..(i - 1) : ~ShiftMatches(start, end, Shifts[j])
             k == Shifts[i]
         IN  ((Pow2(29 - k) - 1) \div 7) + Shr(start, k)
    ELSE 0

BinClaimed == 0 <= binStart /\ binStart < binEnd /\ binEnd <= MaxPosition

\* C11: for 0 <= start < end <= 2^29 region_to_bin(start, end) is the bin of the
\* first shift k of 14, 17, 20, 23, 26 with start >> k = (end - 1) >> k, or 0;
\* it is a bin that contains [start, end), and no bin of a deeper level does;
\* region_to_bin(-1, 0) is 4680.
C11_SmallestEnclosingBin ==
    binResult # NoResult =>
        /\ BinClaimed =>
              /\ binResult.bin = FirstMatch(binStart, binEnd)
              /\ IsBinId(binResult.bin, DEPTH)
              /\ BinLo(binResult.bin, MIN_SHIFT, DEPTH) <= binStart
              /\ binEnd <= BinHi(binResult.bin, MIN_SHIFT, DEPTH)
              /\ \A l \in (LevelOf(binResult.bin, DEPTH) + 1)..DEPTH :
                    binStart \div BinSize(l, MIN_SHIFT, DEPTH)
                        # (binEnd - 1) \div BinSize(l, MIN_SHIFT, DEPTH)
        /\ (binStart = -1 /\ binEnd = 0) => binResult.bin = UNMAPPED_BIN

\* C11 witness: an interval across the first boundary of the deepest level
\* falls in the first bin of the level above.
C11_Witness ==
    /\ binResult # NoResult
    /\ binStart = 16383 /\ binEnd = 16385
    /\ binResult.bin = 585

\* C11 witness for the sentinel.
C11_WitnessUnmapped ==
    binResult # NoResult /\ binStart = -1 /\ binResult.bin = 4680

BothBinCalls == binResult # NoResult /\ binMarks # NoResult

\* The bin of level l that holds position p.
BinAt(p, l) == LevelOffset(l) + p \div BinSize(l, MIN_SHIFT, DEPTH)

BinContains(id, start, end) ==
    BinLo(id, MIN_SHIFT, DEPTH) <= start /\ end <= BinHi(id, MIN_SHIFT, DEPTH)

C12_ReturnsBelowRangeEnd ==
    (binMarks # NoResult /\ 0 <= binStart /\ binStart < binEnd /\ binEnd < MaxPosition)
        => ~binMarks.panic

C12_WitnessRangeEnd ==
    binMarks # NoResult /\ binEnd = MaxPosition /\ binMarks.panic

(***************************************************************************)
(* Bin::max_id and Bin::metadata_id (noodles-csi bin.rs).                  *)
(***************************************************************************)
\* The depths tried are -MaxDepthTried..MaxDepthTried.
MaxDepthTried == 16

\* The outcome of a set of outcomes that the build produces.
OutcomeOfBuild(outcomes, checks) ==
    CHOOSE o \in outcomes : Cardinality(outcomes) = 1 \/ o.panic = checks

Called(o) == [called |-> TRUE, panic |-> o.panic, why |-> o.why, v |-> o.v]

InitMaxId ==
    /\ midDepth \in (-MaxDepthTried)..MaxDepthTried
    /\ midChecks \in BOOLEAN
    /\ midMax = NoResult
    /\ midMeta = NoResult
    /\ IdleChunks /\ IdleVP /\ IdleAux /\ IdleRec /\ IdleBgzf /\ IdleBin
    /\ IdleQuery /\ IdleInt32 /\ IdleStringMap /\ IdleFinish /\ IdleLines
    /\ IdlePerm /\ IdleTabix /\ IdleVcfQuery /\ IdleHeader /\ IdleInfo

BinMaxId ==
    /\ midMax = NoResult
    /\ midMax' = Called(OutcomeOfBuild(max_id(midDepth), midChecks))
    /\ UNCHANGED <<midDepth, midChecks, midMeta,
                   chunkVars, vpVars, auxVars, recVars, bgzfVars, binVars, queryVars, int32Vars, smVars, finishVars, lineVars,
                   permVars, tbxVars, vqVars, hdVars, infoVars>>

BinMetadataId ==
    /\ midMeta = NoResult
    /\ midMeta' = Called(OutcomeOfBuild(metadata_id(midDepth), midChecks))
    /\ UNCHANGED <<midDepth, midChecks, midMax,
                   chunkVars, vpVars, auxVars, recVars, bgzfVars, binVars, queryVars, int32Vars, smVars, finishVars, lineVars,
                   permVars, tbxVars, vqVars, hdVars, infoVars>>

NextMaxId == BinMaxId \/ BinMetadataId

SpecMaxId == InitMaxId /\ [][NextMaxId]_vars

\* ((1 << ((depth + 1) * 3)) - 1) / 7 in wrapping 32-bit arithmetic, for the
\* depths 0..=10: the shift amount is taken modulo 32.
MaxIdFormula32(depth) == (Pow2(((depth + 1) * 3) % 32) - 1) \div 7

\* The same formula on the integers: the number of bins of levels 0..=depth.
MaxIdFormula(depth) == (Pow2((depth + 1) * 3) - 1) \div 7

AssertionFailed(o) == o.panic /\ o.why = "assertion failed: depth <= 10"

\* C13: for every depth in 0..=10 max_id(depth) returns ((1 << ((depth + 1) *
\* 3)) - 1) / 7 as 32-bit arithmetic gives it and metadata_id(depth) returns
\* that plus one; for depth > 10 max_id fails its assertion.
C13_MaxIdFormula ==
    /\ (midMax # NoResult /\ 0 <= midDepth /\ midDepth <= 10) =>
          (~midMax.panic /\ midMax.v = MaxIdFormula32(midDepth))
    /\ (midMax # NoResult /\ midMeta # NoResult /\ 0 <= midDepth /\ midDepth <= 10) =>
          (~midMeta.panic /\ midMeta.v = midMax.v + 1)
    /\ (midMax # NoResult /\ midDepth > 10) => AssertionFailed(midMax)

\* C13, for the depths 0..=9 only: the ids are those of the formula on the
\* integers (37449 and 37450 at depth 5) in every build, and depth > 10 fails
\* the assertion.
C13_UpToDepth9 ==
    /\ (midMax # NoResult /\ 0 <= midDepth /\ midDepth <= 9) =>
          (~midMax.panic /\ midMax.v = MaxIdFormula(midDepth))
    /\ (midMeta # NoResult /\ 0 <= midDepth /\ midDepth <= 9) =>
          (~midMeta.panic /\ midMeta.v = MaxIdFormula(midDepth) + 1)
    /\ (midMax # NoResult /\ midDepth = 5) => midMax.v = 37449
    /\ (midMeta # NoResult /\ midDepth = 5) => midMeta.v = 37450
    /\ (midMax # NoResult /\ midDepth > 10) => AssertionFailed(midMax)

\* C13, at depth 10: 1 << 33 overflows an i32; max_id panics in a build that
\* checks overflow and returns 0 in one that does not.
C13_Depth10 ==
    (midMax # NoResult /\ midDepth = 10) =>
        IF midChecks THEN midMax.panic /\ midMax.why = "shift overflow"
        ELSE ~midMax.panic /\ midMax.v = 0

(***************************************************************************)
(* ReferenceSequence::query (noodles-csi index/reference_sequence.rs).     *)
(***************************************************************************)
MaxStoredBins == 2

\* The schemes tried: that of BAM and tabix, and one of 9 bins over 16 positions.
SmallMinShift == 1
SmallDepth == 1
Schemes == {[min_shift |-> MIN_SHIFT, depth |-> DEPTH],
            [min_shift |-> SmallMinShift, depth |-> SmallDepth]}

SchemeRange(scheme) == Pow2(scheme.min_shift + 3 * scheme.depth)

\* The bin ids a reference sequence of the scheme may store.
StoredIds(scheme) ==
    IF scheme.depth = DEPTH THEN {0, 585, 4681, 4682, 37448}
    ELSE 0..(LevelOffset(scheme.depth + 1) - 1)

\* The 1-based positions asked for.
QueryPositions(scheme) ==
    IF scheme.depth = DEPTH THEN {p \in BinPositions : p >= 1}
    ELSE 1..SchemeRange(scheme)

IsInjective(s) == \A i, j \in 1..Len(s) : s[i] = s[j] => i = j

\* query(&self, min_shift, depth, start, end) on the stored bins `bins`.  The
\* depths tried do not overflow max_id; a bit set or read outside the vector
\* is a panic.
query(bins, min_shift, depth, start, end) ==
    LET max_bin_id == OutcomeOfBuild(max_id(depth), FALSE)
        region_bins == SetBits(reg2bins(start, end, min_shift, depth), max_bin_id.v)
    IN  IF max_bin_id.panic \/ region_bins.panic
           \/ \E i \in 1..Len(bins) : bins[i] >= max_bin_id.v
        THEN [called |-> TRUE, panic |-> TRUE, bins |-> <<>>]
        ELSE LET Marked(id) == IsSet(region_bins, id)
             IN  [called |-> TRUE, panic |-> FALSE, bins |-> SelectSeq(bins, Marked)]

InitQuery ==
    /\ qScheme \in Schemes
    /\ qBins \in {s \in SeqsUpTo(StoredIds(qScheme), MaxStoredBins) : IsInjective(s)}
    /\ qStart \in QueryPositions(qScheme)
    /\ qEnd \in QueryPositions(qScheme)
    /\ qStart <= qEnd
    /\ qResult = NoResult
    /\ IdleChunks /\ IdleVP /\ IdleAux /\ IdleRec /\ IdleBgzf /\ IdleBin
    /\ IdleMaxId /\ IdleInt32 /\ IdleStringMap /\ IdleFinish /\ IdleLines
    /\ IdlePerm /\ IdleTabix /\ IdleVcfQuery /\ IdleHeader /\ IdleInfo

Query ==
    /\ qResult = NoResult
    /\ qResult' = query(qBins, qScheme.min_shift, qScheme.depth, qStart, qEnd)
    /\ UNCHANGED <<qBins, qScheme, qStart, qEnd,
                   chunkVars, vpVars, auxVars, recVars, bgzfVars, binVars, midVars, int32Vars, smVars, finishVars, lineVars,
                   permVars, tbxVars, vqVars, hdVars, infoVars>>

NextQuery == Query

SpecQuery == InitQuery /\ [][NextQuery]_vars

\* The region of bin `id` under the scheme, 0-based: [QBinLo, QBinHi).
QBinLo(id) == BinLo(id, qScheme.min_shift, qScheme.depth)
QBinHi(id) == BinHi(id, qScheme.min_shift, qScheme.depth)

\* The bin holds one of the 1-based positions start..=end, that is, one of the
\* 0-based positions start - 1 ..= end - 1.
IntersectsOneBased(id) == QBinLo(id) <= qEnd - 1 /\ qStart - 1 < QBinHi(id)

\* The bin holds one of the 0-based positions start..=end.
IntersectsZeroBased(id) == QBinLo(id) <= qEnd /\ qStart < QBinHi(id)

IsSubSeq(s, t) == \E keep \in SUBSET (1..Len(t)) :
                     LET Kept(i) == i \in keep
                         idx == SelectSeq([i \in 1..Len(t) |-> i], Kept)
                     IN  s = [k \in 1..Len(idx) |-> t[idx[k]]]

\* C14: for 1 <= start <= end in the range, query returns, in stored order,
\* stored bins among which is every stored bin whose region intersects the
\* 1-based inclusive interval [start, end].
C14_NoIntersectingBinLeftOut ==
    (qResult # NoResult /\ qEnd < SchemeRange(qScheme)) =>
        /\ ~qResult.panic
        /\ IsSubSeq(qResult.bins, qBins)
        /\ \A i \in 1..Len(qBins) :
              IntersectsOneBased(qBins[i]) => qBins[i] \in Range(qResult.bins)

\* C14, what query computes: when it returns, the stored bins whose region
\* holds one of the 0-based positions start..=end, in stored order.
C14_ZeroBasedClosed ==
    (qResult # NoResult /\ ~qResult.panic) =>
        qResult.bins = SelectSeq(qBins, IntersectsZeroBased)

\* C14: query panics exactly when end is the last position of the range.
C14_PanicsAtRangeEnd ==
    qResult # NoResult => (qResult.panic <=> qEnd = SchemeRange(qScheme))

\* C27: for 1 <= start <= end <= 2^(min_shift + 3 * depth) and stored bins with
\* ids below Bin::max_id(depth), query sets and reads no bit outside its bit
\* vector of Bin::max_id(depth) bits, that is, it does not panic.
C27_NoOutOfBoundsAccess ==
    (/\ qResult # NoResult
     /\ 1 <= qStart /\ qStart <= qEnd /\ qEnd <= SchemeRange(qScheme)
     /\ \A i \in 1..Len(qBins) : qBins[i] < LevelOffset(qScheme.depth + 1))
        => ~qResult.panic

\* C27, what holds: the last level of reg2bins sets the bit
\* (8^depth - 1) / 7 + (end >> min_shift), which for end = 2^(min_shift + 3 * depth)
\* is Bin::max_id(depth), the length of the vector; below that end every bit
\* set or read is inside the vector.
C27_InBoundsBelowRangeEnd ==
    qResult # NoResult =>
        LET levels == reg2bins(qStart, qEnd, qScheme.min_shift, qScheme.depth)
            len == LevelOffset(qScheme.depth + 1)
        IN  /\ levels[Len(levels)].e < len <=> qEnd < SchemeRange(qScheme)
            /\ qResult.panic <=> levels[Len(levels)].e >= len

(***************************************************************************)
(* BCF Int32 (noodles-bcf record/value/int32.rs).                          *)
(***************************************************************************)
\* `value as u32`, as the two 16-bit halves <<high, low>> of the u32.
AsU32(value) == <<(value \div 65536) % 65536, value % 65536>>

\* The high half of 0x80000000..=0x8000ffff.
SentinelHigh == 32768

Int32Value(n) == [called |-> TRUE, tag |-> "Value", n |-> n]
Int32Missing == [called |-> TRUE, tag |-> "Missing", n |-> 0]
Int32EndOfVector == [called |-> TRUE, tag |-> "EndOfVector", n |-> 0]
Int32Reserved(n) == [called |-> TRUE, tag |-> "Reserved", n |-> n]

\* Int32::MIN_VALUE and Int32::MAX_VALUE
MIN_VALUE == MinI32 + 8
MAX_VALUE == MaxI32

\* Mutant of Int32From: the reserved range ends at 0x80000008.
Int32From_ReservedTo8(value) ==
    LET u == AsU32(value)
    IN  IF u = <<SentinelHigh, 0>> THEN Int32Missing
        ELSE IF u = <<SentinelHigh, 1>> THEN Int32EndOfVector
        ELSE IF u[1] = SentinelHigh /\ 2 <= u[2] /\ u[2] <= 8 THEN Int32Reserved(value)
        ELSE Int32Value(value)

\* impl From<i32> for Int32
Int32From(value) ==
    LET u == AsU32(value)
    IN  IF u = <<SentinelHigh, 0>> THEN Int32Missing
        ELSE IF u = <<SentinelHigh, 1>> THEN Int32EndOfVector
        ELSE IF u[1] = SentinelHigh /\ 2 <= u[2] /\ u[2] <= 7 THEN Int32Reserved(value)
        ELSE Int32Value(value)

\* Mutant of I32From: EndOfVector is given the value of Missing.
I32From_EndOfVectorAsMissing(value) ==
    CASE value.tag = "Missing" -> -MaxI32 - 1
      [] value.tag = "EndOfVector" -> -MaxI32 - 1
      [] value.tag \in {"Value", "Reserved"} -> value.n

\* impl From<Int32> for i32
I32From(value) ==
    CASE value.tag = "Missing" -> -MaxI32 - 1
      [] value.tag = "EndOfVector" -> -MaxI32
      [] value.tag \in {"Value", "Reserved"} -> value.n

\* How far from i32::MIN + 8, 0 and i32::MAX the values tried lie.
Int32Near == 6

Int32Samples ==
    {MinI32 + d : d \in 0..(8 + Int32Near)}
    \cup ((-Int32Near)..Int32Near)
    \cup {MaxI32 - d : d \in 0..Int32Near}

InitInt32 ==
    /\ i32N \in Int32Samples
    /\ i32X = NoResult
    /\ i32Back = NoResult
    /\ i32Again = NoResult
    /\ IdleChunks /\ IdleVP /\ IdleAux /\ IdleRec /\ IdleBgzf /\ IdleBin
    /\ IdleMaxId /\ IdleQuery /\ IdleStringMap /\ IdleFinish /\ IdleLines
    /\ IdlePerm /\ IdleTabix /\ IdleVcfQuery /\ IdleHeader /\ IdleInfo

Int32FromI32 ==
    /\ i32X = NoResult
    /\ i32X' = Int32From(i32N)
    /\ UNCHANGED <<i32N, i32Back, i32Again, chunkVars, vpVars, auxVars, recVars,
                   bgzfVars, binVars, midVars, queryVars, smVars, finishVars, lineVars,
                   permVars, tbxVars, vqVars, hdVars, infoVars>>

I32FromInt32 ==
    /\ i32X # NoResult
    /\ i32Back = NoResult
    /\ i32Back' = [called |-> TRUE, n |-> I32From(i32X)]
    /\ UNCHANGED <<i32N, i32X, i32Again, chunkVars, vpVars, auxVars, recVars,
                   bgzfVars, binVars, midVars, queryVars, smVars, finishVars, lineVars,
                   permVars, tbxVars, vqVars, hdVars, infoVars>>

Int32FromI32Again ==
    /\ i32Back # NoResult
    /\ i32Again = NoResult
    /\ i32Again' = Int32From(i32Back.n)
    /\ UNCHANGED <<i32N, i32X, i32Back, chunkVars, vpVars, auxVars, recVars,
                   bgzfVars, binVars, midVars, queryVars, smVars, finishVars, lineVars,
                   permVars, tbxVars, vqVars, hdVars, infoVars>>

NextInt32 == Int32FromI32 \/ I32FromInt32 \/ Int32FromI32Again

SpecInt32 == InitInt32 /\ [][NextInt32]_vars

\* C15: Int32::from(n) is Missing exactly for i32::MIN, EndOfVector exactly for
\* i32::MIN + 1, Reserved(n) exactly for i32::MIN + 2 ..= i32::MIN + 7, and
\* Value(n) exactly for MIN_VALUE <= n <= MAX_VALUE.
C15_Classes ==
    i32X # NoResult =>
        /\ (i32X = Int32Missing) <=> (i32N = MinI32)
        /\ (i32X = Int32EndOfVector) <=> (i32N = MinI32 + 1)
        /\ (i32X = Int32Reserved(i32N)) <=> (MinI32 + 2 <= i32N /\ i32N <= MinI32 + 7)
        /\ (i32X = Int32Value(i32N)) <=> (MIN_VALUE <= i32N /\ i32N <= MAX_VALUE)
        /\ i32X.tag \in {"Missing", "EndOfVector", "Reserved", "Value"}

\* C15 witness: the last reserved value and the first plain value.
C15_Witness ==
    /\ i32X # NoResult
    /\ i32N = MinI32 + 7
    /\ i32X = Int32Reserved(MinI32 + 7)

C15_WitnessMinValue ==
    i32X # NoResult /\ i32N = MIN_VALUE /\ i32X = Int32Value(MIN_VALUE)

\* C16: i32::from(Int32::from(n)) = n for every n, and Int32::from(i32::from(x))
\* = x for every x that Int32::from returned.
C16_RoundTrips ==
    /\ i32Back # NoResult => i32Back.n = i32N
    /\ i32Again # NoResult => i32Again = i32X

\* C16 witness: the round trips of a sentinel.
C16_Witness ==
    /\ i32Again # NoResult
    /\ i32N = MinI32 + 1
    /\ i32X = Int32EndOfVector
    /\ i32Back.n = MinI32 + 1
    /\ i32Again = Int32EndOfVector

(***************************************************************************)
(* write_string_map_index (noodles-bcf writer/string_map.rs).              *)
(*                                                                         *)
(* The index is a usize; it is held as <<high, low>> with i = high * 2^31   *)
(* + low and 0 <= low < 2^31, so that the indices past i32::MAX have high   *)
(* > 0.                                                                    *)
(***************************************************************************)
MaxI8 == 127
MaxI16 == 32767

\* i8::try_from(i), i16::try_from(i), i32::try_from(i): Ok for the indices the
\* type holds.
FitsI8(i) == i[1] = 0 /\ i[2] <= MaxI8
FitsI16(i) == i[1] = 0 /\ i[2] <= MaxI16
FitsI32(i) == i[1] = 0

\* The type codes of a typed value and the header byte of a scalar: the count
\* 1 in the high nibble, the type in the low one.
TypeCodeInt8 == 1
TypeCodeInt16 == 2
TypeCodeInt32 == 3
ScalarHeader(type) == 16 * 1 + type

\* write_value for Some(Value::Int8(Some(Int8::Value(j)))), and for Int16, Int32.
WriteValueInt8(j) == <<ScalarHeader(TypeCodeInt8)>> \o WriteI8(j)
WriteValueInt16(j) == <<ScalarHeader(TypeCodeInt16)>> \o WriteI16LE(j)
WriteValueInt32(j) == <<ScalarHeader(TypeCodeInt32)>> \o WriteI32LE(j)

\* Mutant of write_string_map_index: the first test is for a u8.
write_string_map_index_U8First(i) ==
    IF i[1] = 0 /\ i[2] <= MaxU8 THEN [ok |-> TRUE, bytes |-> WriteValueInt8(AsI8(i[2]))]
    ELSE IF FitsI16(i) THEN [ok |-> TRUE, bytes |-> WriteValueInt16(i[2])]
    ELSE IF FitsI32(i) THEN [ok |-> TRUE, bytes |-> WriteValueInt32(i[2])]
    ELSE [ok |-> FALSE, bytes |-> <<>>]

\* write_string_map_index(writer, i): the bytes written and the result (an
\* error is of kind InvalidInput).
write_string_map_index(i) ==
    IF FitsI8(i) THEN [ok |-> TRUE, bytes |-> WriteValueInt8(i[2])]
    ELSE IF FitsI16(i) THEN [ok |-> TRUE, bytes |-> WriteValueInt16(i[2])]
    ELSE IF FitsI32(i) THEN [ok |-> TRUE, bytes |-> WriteValueInt32(i[2])]
    ELSE [ok |-> FALSE, bytes |-> <<>>]

\* How far from the ends of i8, i16 and i32 the indices tried lie.
IndexNear == 2
MaxStringMapCalls == 2

\* The largest high part tried: indices up to (MaxIndexHigh + 1) * 2^31 - 1.
MaxIndexHigh == 2

IndexLows ==
    (0..IndexNear) \cup {MaxI32 - d : d \in 0..IndexNear}
    \cup UNION {(b - IndexNear)..(b + 1 + IndexNear) : b \in {MaxI8, MaxI16}}

Indices == {<<h, l>> : h \in 0..MaxIndexHigh, l \in IndexLows}

InitStringMap ==
    /\ smBuf = <<>>
    /\ smI = <<0, 0>>
    /\ smStart = 0
    /\ smCalls = 0
    /\ smResult = NoResult
    /\ IdleChunks /\ IdleVP /\ IdleAux /\ IdleRec /\ IdleBgzf /\ IdleBin
    /\ IdleMaxId /\ IdleQuery /\ IdleInt32 /\ IdleFinish /\ IdleLines /\ IdlePerm
    /\ IdleTabix /\ IdleVcfQuery /\ IdleHeader /\ IdleInfo

WriteStringMapIndex ==
    /\ smCalls < MaxStringMapCalls
    /\ \E i \in Indices :
          LET r == write_string_map_index(i)
          IN  /\ smI' = i
              /\ smBuf' = smBuf \o r.bytes
              /\ smResult' = [called |-> TRUE, ok |-> r.ok,
                              kind |-> IF r.ok THEN "" ELSE "InvalidInput"]
    /\ smStart' = Len(smBuf)
    /\ smCalls' = smCalls + 1
    /\ UNCHANGED <<chunkVars, vpVars, auxVars, recVars, bgzfVars, binVars, midVars,
                   queryVars, int32Vars, finishVars, lineVars, permVars,
                   tbxVars, vqVars, hdVars, infoVars>>

NextStringMap == WriteStringMapIndex

SpecStringMap == InitStringMap /\ [][NextStringMap]_vars

\* The bytes the last call wrote.
StringMapWritten == SubSeq(smBuf, smStart + 1, Len(smBuf))

\* C17: write_string_map_index writes 0x11 and 1 byte for 0 <= i <= 127, 0x12
\* and 2 little-endian bytes for 128 <= i <= 32767, 0x13 and 4 little-endian
\* bytes for 32768 <= i <= 2^31 - 1, and returns InvalidInput for i >= 2^31.
C17_SmallestWidth ==
    smResult # NoResult =>
        LET i == smI[2]
            w == StringMapWritten
        IN  IF smI[1] > 0
            THEN ~smResult.ok /\ smResult.kind = "InvalidInput" /\ w = <<>>
            ELSE /\ smResult.ok
                 /\ i <= 127 => w = <<17, i>>
                 /\ (128 <= i /\ i <= 32767) => w = <<18, LEByte(i, 1), LEByte(i, 2)>>
                 /\ 32768 <= i =>
                       w = <<19, LEByte(i, 1), LEByte(i, 2), LEByte(i, 3), LEByte(i, 4)>>

\* C17 witness: 128 is the first index written in two bytes.
C17_Witness ==
    /\ smResult # NoResult
    /\ smI = <<0, 128>>
    /\ StringMapWritten = <<18, 128, 0>>

\* C17 witness: 2^31 is refused.
C17_WitnessTooLarge ==
    smResult # NoResult /\ smI = <<1, 0>> /\ ~smResult.ok

(***************************************************************************)
(* write_sam_record: the quality scores.                                   *)
(***************************************************************************)
\* The call got as far as the quality scores: the read name and the reference
\* sequence names were accepted and the bin was computed.
RecReachedQual ==
    /\ recResult # NoResult
    /\ recResult.err # "panic"
    /\ ~(rec.read_name.some /\ 0 \in Range(rec.read_name.v))
    /\ rec.reference_sequence_name.some =>
          HasReferenceSequence(rec.reference_sequence_name.v)
    /\ rec.mate_reference_sequence_name.some =>
          HasReferenceSequence(rec.mate_reference_sequence_name.v)

\* The number of bytes before the quality scores: block_size, the fixed fields,
\* the read name, the CIGAR and the packed sequence.
QualOffset ==
    4 + BLOCK_HEADER_SIZE + RecNameBytes + 4 * Len(rec.cigar)
    + ((Len(rec.sequence) + 1) \div 2)

\* The l_seq bytes after the packed sequence.
QualBytes == SubSeq(RecOut, QualOffset + 1, QualOffset + Len(rec.sequence))

\* C18: after the packed sequence write_sam_record writes l_seq quality bytes,
\* the record's scores when there are as many as bases and 0xFF bytes when
\* there are none, followed by the data; with a non-zero number of scores that
\* differs from the sequence length it returns InvalidInput (in the calls that
\* do not panic on the bin) and writes no quality byte.
C18_QualityBytes ==
    /\ (RecReachedQual /\ Len(rec.quality_scores) = Len(rec.sequence)) =>
          /\ FieldLSeq = Len(rec.sequence)
          /\ Len(RecOut) >= QualOffset + Len(rec.sequence)
          /\ QualBytes = rec.quality_scores
    /\ (RecReachedQual /\ Len(rec.quality_scores) = 0) =>
          /\ FieldLSeq = Len(rec.sequence)
          /\ Len(RecOut) >= QualOffset + Len(rec.sequence)
          /\ QualBytes = [i \in 1..Len(rec.sequence) |-> 255]
    /\ (RecWritten /\ RecReachedQual) =>
          Len(RecOut) = QualOffset + Len(rec.sequence) + AuxSize(rec.data)
    /\ (recResult # NoResult /\ recResult.err # "panic"
          /\ Len(rec.quality_scores) # 0
          /\ Len(rec.quality_scores) # Len(rec.sequence)) =>
          /\ recResult.err = "InvalidInput"
          /\ RecReachedQual => Len(RecOut) = QualOffset

\* C18 witness: a record of two bases without quality scores is written with
\* two 0xFF bytes.
C18_Witness ==
    /\ RecWritten
    /\ Len(rec.sequence) = 2
    /\ rec.quality_scores = <<>>
    /\ QualBytes = <<255, 255>>

\* C18 witness: one score for two bases is refused after the packed sequence.
C18_WitnessMismatch ==
    /\ RecReachedQual
    /\ Len(rec.sequence) = 2 /\ Len(rec.quality_scores) = 1
    /\ recResult.err = "InvalidInput"
    /\ Len(RecOut) = QualOffset

\* C18 witness: as many scores as bases.
C18_WitnessScores ==
    RecWritten /\ Len(rec.sequence) = 2 /\ QualBytes = <<30, 0>>

\* The call failed before `writer.write_i32(block_size)`: a NUL in the read name
\* or a reference name that the reference sequences do not hold.
NameError ==
    \/ (rec.read_name.some /\ 0 \in Range(rec.read_name.v))
    \/ (rec.reference_sequence_name.some
          /\ ~HasReferenceSequence(rec.reference_sequence_name.v))
    \/ (rec.mate_reference_sequence_name.some
          /\ ~HasReferenceSequence(rec.mate_reference_sequence_name.v))

\* C28: whenever write_sam_record returns an error that does not come from the
\* underlying writer, no byte of the record has been written to the writer.
C28_AllOrNothing ==
    (recResult # NoResult /\ recResult.err = "InvalidInput") => RecOut = <<>>

\* C28, what holds: an error found in the names is returned before the first
\* write; an error found later (quality scores that do not match the
\* sequence, a NUL in a string field) is returned after the 32-byte header,
\* the read name, the CIGAR and the sequence were written.
C28_OnlyNameErrorsWriteNothing ==
    (recResult # NoResult /\ recResult.err = "InvalidInput") =>
        IF NameError THEN RecOut = <<>>
        ELSE Len(RecOut) >= 4 + BLOCK_HEADER_SIZE + RecNameBytes + 4 * Len(rec.cigar)
                            + (Len(rec.sequence) + 1) \div 2

\* C29: for every record with a position, the value region_to_bin computes is
\* a bin id in 0..=37449, the 16-bit bin field holds it unchanged, and
\* start + reference_len does not overflow an i32.
C29_BinInRangeNoOverflow ==
    (recResult # NoResult /\ rec.position.some /\ ~NameError) =>
        LET start == rec.position.v
            ref_len == reference_len(rec.cigar)
        IN  /\ ~AddOverflows(start, ref_len)
            /\ recResult.err # "panic"
            /\ region_to_bin(start, start + ref_len) \in 0..37449
            /\ FieldBin = region_to_bin(start, start + ref_len)

\* C29, what holds: when the end start + reference_len is at most 2^29, the sum
\* does not overflow, the bin is in 0..=37449 and the bin field holds it.
C29_InRangeUpToRangeEnd ==
    (recResult # NoResult /\ rec.position.some /\ ~NameError
     /\ rec.position.v <= MaxPosition
     /\ rec.position.v + reference_len(rec.cigar) <= MaxPosition) =>
        LET start == rec.position.v
            ref_len == reference_len(rec.cigar)
        IN  /\ recResult.err # "panic"
            /\ region_to_bin(start, start + ref_len) \in 0..37449
            /\ FieldBin = region_to_bin(start, start + ref_len)

(***************************************************************************)
(* BGZF writer: finish.                                                    *)
(***************************************************************************)
\* The blocks of the sink, read to its end.
SinkRead(sink) == ReadToEndFrom(sink, 1, <<>>, 0)

\* The last 28 bytes of the sink.
SinkTail(sink) ==
    IF Len(sink) < Len(EOF_BLOCK) THEN <<>>
    ELSE SubSeq(sink, Len(sink) - Len(EOF_BLOCK) + 1, Len(sink))

\* A step that is a call of try_finish.
FinishStep == wFinishCalls' = wFinishCalls + 1

RECURSIVE LinesRead(_)
LinesRead(k) == IF k = 0 THEN <<>> ELSE LinesRead(k - 1) \o rdLines[k].line

\* The line of `data` that starts after `off` bytes: up to and including the
\* first '\n', or up to the end of the data.
LineAt(data, off) ==
    LET rest == SubSeq(data, off + 1, Len(data))
    IN  IF \E i \in 1..Len(rest) : rest[i] = 10
        THEN SubSeq(rest, 1, CHOOSE i \in 1..Len(rest) :
                                rest[i] = 10 /\ \A j \in 1..(i - 1) : rest[j] # 10)
        ELSE rest

\* The data is held in one block: the sink is that block and the EOF block.
OneBlock == bgData # <<>> /\ wSink = Block(bgData) \o EOF_BLOCK

\* C20: with the data in one block, the virtual position observed before each
\* successful read_line is (the offset of the block, the number of bytes that
\* the read_line calls before it returned), a seek to it followed by read_line
\* returns the same line, each line is returned up to and including its '\n',
\* the last one as it is when the data does not end with '\n', and read_line
\* returns 0 only when all the data has been returned.
C20_LinePositions ==
    OneBlock =>
        /\ \A k \in 1..Len(rdLines) :
              /\ rdLines[k].vpos = <<0, Len(LinesRead(k - 1))>>
              /\ rdLines[k].line # <<>>
              /\ rdLines[k].line = LineAt(bgData, Len(LinesRead(k - 1)))
              /\ \/ rdLines[k].line[Len(rdLines[k].line)] = 10
                 \/ Len(LinesRead(k)) = Len(bgData)
        /\ rdEof => LinesRead(Len(rdLines)) = bgData
        /\ rdReread # NoResult => rdReread.line = rdLines[rdReread.k].line

\* The same for data in any number of blocks, but for the value of the
\* virtual position: every recorded position is a seek target that reads the
\* line again, and the lines are those of the data.
C20_AnyBlocks ==
    /\ \A k \in 1..Len(rdLines) :
          rdLines[k].line = LineAt(bgData, Len(LinesRead(k - 1)))
    /\ rdEof => LinesRead(Len(rdLines)) = bgData
    /\ rdReread # NoResult => rdReread.line = rdLines[rdReread.k].line

\* C20 witness: "A\nA" in one block is read as "A\n" at (0, 0) and "A" at
\* (0, 2), then 0, and a seek to (0, 2) reads "A" again.
C20_Witness ==
    /\ OneBlock
    /\ bgData = <<65, 10, 65>>
    /\ rdEof
    /\ Len(rdLines) = 2
    /\ rdLines[1] = [vpos |-> <<0, 0>>, line |-> <<65, 10>>]
    /\ rdLines[2] = [vpos |-> <<0, 2>>, line |-> <<65>>]
    /\ rdReread # NoResult
    /\ rdReread.k = 2
    /\ rdReread.line = <<65>>


(***************************************************************************)
(* Tabix index writer (noodles-tabix/src/writer.rs).                       *)
(*                                                                         *)
(* The bytes are those given to the inner BGZF writer, before compression. *)
(* The virtual positions and counts tried are below 2^31, so the upper     *)
(* four bytes of every u64 written are zero.                               *)
(***************************************************************************)
\* "TBI\1"
MAGIC_NUMBER == <<84, 66, 73, 1>>

\* The id of the metadata pseudo-bin of the fixed scheme.
METADATA_ID == 37450

\* write_u64::<LittleEndian>
WriteU64LE(v) == WriteI32LE(v) \o <<0, 0, 0, 0>>

write_magic == MAGIC_NUMBER

write_header(header) ==
    WriteI32LE(header.format)
    \o WriteI32LE(header.reference_sequence_name_index)
    \o WriteI32LE(header.start_position_index)
    \o WriteI32LE(IF header.end_position_index.some
                  THEN header.end_position_index.v ELSE 0)
    \o WriteI32LE(header.line_comment_prefix)
    \o WriteI32LE(header.line_skip_count)

write_chunk(chunk) == WriteU64LE(chunk.start) \o WriteU64LE(chunk.end)

write_bin(bin) ==
    LET n_chunk == Len(bin.chunks)
    IN  WriteU32LEOfI32(bin.id) \o WriteI32LE(n_chunk)
        \o Concat([i \in 1..Len(bin.chunks) |-> write_chunk(bin.chunks[i])])

\* Bin::from(metadata): the pseudo-bin, with the positions and the counts as
\* two chunks.
BinFromMetadata(metadata) ==
    [id |-> METADATA_ID,
     chunks |-> <<Chunk(metadata.start_position, metadata.end_position),
                  Chunk(metadata.mapped_record_count, metadata.unmapped_record_count)>>]

\* Mutant of write_reference_sequence: n_bin does not count the metadata bin.
write_reference_sequence_StoredBinsOnly(reference) ==
    LET n_bin == Len(reference.bins)
        n_intv == Len(reference.intervals)
    IN  WriteI32LE(n_bin)
        \o Concat([i \in 1..Len(reference.bins) |-> write_bin(reference.bins[i])])
        \o (IF reference.metadata.some
            THEN write_bin(BinFromMetadata(reference.metadata.v)) ELSE <<>>)
        \o WriteI32LE(n_intv)
        \o Concat([i \in 1..n_intv |-> WriteU64LE(reference.intervals[i])])

write_reference_sequence(reference) ==
    LET n_bin == Len(reference.bins) + (IF reference.metadata.some THEN 1 ELSE 0)
        n_intv == Len(reference.intervals)
    IN  WriteI32LE(n_bin)
        \o Concat([i \in 1..Len(reference.bins) |-> write_bin(reference.bins[i])])
        \o (IF reference.metadata.some
            THEN write_bin(BinFromMetadata(reference.metadata.v)) ELSE <<>>)
        \o WriteI32LE(n_intv)
        \o Concat([i \in 1..n_intv |-> WriteU64LE(reference.intervals[i])])

RECURSIVE SumLen(_)
SumLen(names) == IF names = <<>> THEN 0 ELSE (Len(Head(names)) + 1) + SumLen(Tail(names))

\* Mutant of write_index: l_nm does not count the trailing NULs.
write_index_NamesWithoutNul(index) ==
    LET n_ref == Len(index.reference_sequences)
        names == index.reference_sequence_names
        l_nm == SumLen(names) - Len(names)
    IN  write_magic \o WriteI32LE(n_ref) \o write_header(index.header)
        \o WriteI32LE(l_nm)
        \o Concat([i \in 1..Len(names) |-> names[i] \o <<0>>])
        \o Concat([i \in 1..n_ref |->
                      write_reference_sequence(index.reference_sequences[i])])
        \o (IF index.unmapped_read_count.some
            THEN WriteU64LE(index.unmapped_read_count.v) ELSE <<>>)

write_index(index) ==
    LET n_ref == Len(index.reference_sequences)
        names == index.reference_sequence_names
        l_nm == SumLen(names)
    IN  write_magic \o WriteI32LE(n_ref) \o write_header(index.header)
        \o WriteI32LE(l_nm)
        \o Concat([i \in 1..Len(names) |-> names[i] \o <<0>>])
        \o Concat([i \in 1..n_ref |->
                      write_reference_sequence(index.reference_sequences[i])])
        \o (IF index.unmapped_read_count.some
            THEN WriteU64LE(index.unmapped_read_count.v) ELSE <<>>)

\* The indices tried.
MaxTbxRefs == 2
MaxTbxNames == 2
MaxTbxBins == 2
MaxTbxChunks == 1
MaxTbxIntervals == 1

\* Bin k of a reference sequence: its id, and (k - 1) mod (MaxTbxChunks + 1) chunks.
TbxBin(k) ==
    [id |-> 4680 + k,
     chunks |-> [j \in 1..((k - 1) % (MaxTbxChunks + 1)) |-> Chunk(j, j + k)]]

TbxMetadata ==
    [start_position |-> 3, end_position |-> 9,
     mapped_record_count |-> 2, unmapped_record_count |-> 0]

TbxReferenceSequences ==
    {[bins |-> [k \in 1..nb |-> TbxBin(k)],
      metadata |-> md,
      intervals |-> [k \in 1..ni |-> 336 + k]] :
        nb \in 0..MaxTbxBins, md \in {None, Some(TbxMetadata)}, ni \in 0..MaxTbxIntervals}

\* Name k: "s", "sq", "sqq", ...
TbxName(k) == <<115>> \o Rep(113, k - 1)

\* The header test_write_index writes.
TbxHeaders ==
    {[format |-> 0, reference_sequence_name_index |-> 1, start_position_index |-> 4,
      end_position_index |-> Some(5), line_comment_prefix |-> 35,
      line_skip_count |-> 0]}

InitTabix ==
    /\ tbxIndex \in
         {[header |-> h,
           reference_sequence_names |-> [k \in 1..nn |-> TbxName(k)],
           reference_sequences |-> rs,
           unmapped_read_count |-> u] :
             h \in TbxHeaders, nn \in 0..MaxTbxNames,
             rs \in SeqsUpTo(TbxReferenceSequences, MaxTbxRefs),
             u \in {None, Some(7)}}
    /\ tbxOut = NoResult
    /\ IdleChunks /\ IdleVP /\ IdleAux /\ IdleRec /\ IdleBgzf /\ IdleBin
    /\ IdleMaxId /\ IdleQuery /\ IdleInt32 /\ IdleStringMap /\ IdleFinish
    /\ IdleLines /\ IdlePerm /\ IdleVcfQuery /\ IdleHeader /\ IdleInfo

WriteIndex ==
    /\ tbxOut = NoResult
    /\ tbxOut' = [called |-> TRUE, bytes |-> write_index(tbxIndex)]
    /\ UNCHANGED <<tbxIndex, chunkVars, vpVars, auxVars, recVars, bgzfVars, binVars,
                   midVars, queryVars, int32Vars, smVars, finishVars, lineVars,
                   permVars, vqVars, hdVars, infoVars>>

NextTabix == WriteIndex

SpecTabix == InitTabix /\ [][NextTabix]_vars

(***************************************************************************)
(* Claims about the tabix index writer: the bytes are read back by their   *)
(* count prefixes.                                                         *)
(***************************************************************************)
I32At(bytes, at) == DecodeI32LE(SubSeq(bytes, at, at + 3))

\* A u64 whose upper four bytes are zero; -1 otherwise.
U64At(bytes, at) ==
    IF SubSeq(bytes, at + 4, at + 7) = <<0, 0, 0, 0>> THEN I32At(bytes, at) ELSE -1

\* n chunks read from `at`: the chunks and the offset after them.
RECURSIVE ReadChunks(_, _, _)
ReadChunks(bytes, at, n) ==
    IF n <= 0 THEN [chunks |-> <<>>, at |-> at]
    ELSE IF at + 15 > Len(bytes) THEN [chunks |-> <<>>, at |-> Len(bytes) + 2]
    ELSE LET rest == ReadChunks(bytes, at + 16, n - 1)
         IN  [chunks |-> <<Chunk(U64At(bytes, at), U64At(bytes, at + 8))>> \o rest.chunks,
              at |-> rest.at]

\* n bins read from `at`, each as its id, its n_chunk and that many chunks.
RECURSIVE ReadBins(_, _, _)
ReadBins(bytes, at, n) ==
    IF n <= 0 THEN [bins |-> <<>>, at |-> at]
    ELSE IF at + 7 > Len(bytes) THEN [bins |-> <<>>, at |-> Len(bytes) + 2]
    ELSE LET cs == ReadChunks(bytes, at + 8, I32At(bytes, at + 4))
             rest == ReadBins(bytes, cs.at, n - 1)
         IN  [bins |-> <<[id |-> I32At(bytes, at), chunks |-> cs.chunks]>> \o rest.bins,
              at |-> rest.at]

RECURSIVE ReadIntervals(_, _, _)
ReadIntervals(bytes, at, n) ==
    IF n <= 0 THEN [intervals |-> <<>>, at |-> at]
    ELSE IF at + 7 > Len(bytes) THEN [intervals |-> <<>>, at |-> Len(bytes) + 2]
    ELSE LET rest == ReadIntervals(bytes, at + 8, n - 1)
         IN  [intervals |-> <<U64At(bytes, at)>> \o rest.intervals, at |-> rest.at]

\* n reference sequences read from `at`: n_bin, the bins, n_intv, the offsets.
RECURSIVE ReadReferences(_, _, _)
ReadReferences(bytes, at, n) ==
    IF n <= 0 THEN [refs |-> <<>>, at |-> at]
    ELSE IF at + 3 > Len(bytes) THEN [refs |-> <<>>, at |-> Len(bytes) + 2]
    ELSE LET bs == ReadBins(bytes, at + 4, I32At(bytes, at))
         IN  IF bs.at + 3 > Len(bytes) THEN [refs |-> <<>>, at |-> Len(bytes) + 2]
             ELSE LET is == ReadIntervals(bytes, bs.at + 4, I32At(bytes, bs.at))
                      rest == ReadReferences(bytes, is.at, n - 1)
                  IN  [refs |-> <<[bins |-> bs.bins, intervals |-> is.intervals]>>
                                \o rest.refs,
                       at |-> rest.at]

\* What a reference sequence holds in the file: its stored bins, then the
\* metadata pseudo-bin if it has metadata, and its linear index.
StoredReference(reference) ==
    [bins |-> reference.bins \o
              (IF reference.metadata.some
               THEN <<BinFromMetadata(reference.metadata.v)>> ELSE <<>>),
     intervals |-> reference.intervals]

\* The offsets of l_nm and of the names: after the magic, n_ref and the six
\* header fields.
TbxLNmAt == 4 + 4 + 6 * 4 + 1

TbxNamesAt == TbxLNmAt + 4

\* C23: in the bytes write_index wrote, l_nm is the number of bytes of the
\* NUL-terminated names that follow it, and the reference sequences read by
\* their counts (n_bin bins, each with n_chunk chunks of two u64, then n_intv
\* offsets) are the stored bins followed by the metadata pseudo-bin when there
\* is metadata, with their chunks, and the linear index; nothing is left over
\* but the optional n_no_coor.
C23_CountsMatch ==
    tbxOut # NoResult =>
        LET out == tbxOut.bytes
            names == tbxIndex.reference_sequence_names
            l_nm == I32At(out, TbxLNmAt)
            read == ReadReferences(out, TbxNamesAt + l_nm, I32At(out, 5))
        IN  /\ l_nm = Len(Concat([i \in 1..Len(names) |-> names[i] \o <<0>>]))
            /\ SubSeq(out, TbxNamesAt, TbxNamesAt + l_nm - 1)
                   = Concat([i \in 1..Len(names) |-> names[i] \o <<0>>])
            /\ read.refs = [i \in 1..Len(tbxIndex.reference_sequences) |->
                               StoredReference(tbxIndex.reference_sequences[i])]
            /\ read.at = Len(out) + 1
                         - (IF tbxIndex.unmapped_read_count.some THEN 8 ELSE 0)

\* C23 witness: an index written with two names and two reference sequences, one
\* with two stored bins (one of them with a chunk), metadata and an interval,
\* the other without metadata.
C23_Witness ==
    /\ tbxOut # NoResult
    /\ Len(tbxIndex.reference_sequence_names) = 2
    /\ Len(tbxIndex.reference_sequences) = 2
    /\ \E i, j \in 1..2 :
          /\ Len(tbxIndex.reference_sequences[i].bins) = 2
          /\ tbxIndex.reference_sequences[i].metadata.some
          /\ Len(tbxIndex.reference_sequences[i].intervals) = 1
          /\ ~tbxIndex.reference_sequences[j].metadata.some
    /\ I32At(tbxOut.bytes, TbxNamesAt + I32At(tbxOut.bytes, TbxLNmAt)) = 3


(***************************************************************************)
(* VCF Reader::query (noodles-vcf/src/reader.rs).                          *)
(*                                                                         *)
(* A reference sequence of the index is held as what its query(start, end) *)
(* and min_offset(start) return for the region asked: the chunks of the    *)
(* bins found and the minimum offset.                                      *)
(***************************************************************************)
Ok(v) == [called |-> TRUE, ok |-> TRUE, kind |-> "", v |-> v]
Err(kind) == [called |-> TRUE, ok |-> FALSE, kind |-> kind, v |-> <<>>]

\* `.iter().position(|n| name == n)`, 0-based; -1 for None.
PositionOf(names, name) ==
    IF \E i \in 1..Len(names) : names[i] = name
    THEN (CHOOSE i \in 1..Len(names) :
              names[i] = name /\ \A j \in 1..(i - 1) : names[j] # name) - 1
    ELSE -1

resolve_region(index, region) ==
    IF region.kind = "Mapped"
    THEN LET i == PositionOf(index.reference_sequence_names, region.name)
         IN  IF i < 0 THEN Err("InvalidInput")
             ELSE Ok([i |-> i, name |-> region.name,
                      start |-> region.start, end |-> region.end])
    ELSE Err("InvalidData")

\* Every value Reader::query(index, region) can return: an error, or the Query
\* with the merged chunks, the name and the interval.
QueryOutcomes(index, region) ==
    LET resolved == resolve_region(index, region)
    IN  IF ~resolved.ok THEN {resolved}
        ELSE IF ~(resolved.v.i < Len(index.reference_sequences))
        THEN {Err("InvalidInput")}
        ELSE LET index_reference_sequence == index.reference_sequences[resolved.v.i + 1]
                 bin_chunks == index_reference_sequence.chunks
                 offset == index_reference_sequence.min_offset
             IN  {Ok([chunks |-> merged, reference_sequence_name |-> resolved.v.name,
                      start |-> resolved.v.start, end |-> resolved.v.end]) :
                     merged \in OptimizeResults(bin_chunks, offset)}

\* The indices and regions tried.
MaxVcfNames == 2
MaxVcfRefs == 2

VcfNames == {"sq0", "sq1"}

VcfReferenceSequences ==
    {[chunks |-> cs, min_offset |-> m] :
        cs \in {<<>>, <<Chunk(2, 3), Chunk(0, 1), Chunk(1, 2)>>}, m \in {0, 1}}

VcfRegions ==
    {[kind |-> "Mapped", name |-> n, start |-> 8, end |-> 13] :
        n \in VcfNames \cup {"sq2"}}
    \cup {[kind |-> "Unmapped", name |-> "", start |-> 0, end |-> 0],
          [kind |-> "All", name |-> "", start |-> 0, end |-> 0]}

InitVcfQuery ==
    /\ vqIndex \in
         {[reference_sequence_names |-> ns, reference_sequences |-> rs] :
             ns \in SeqsUpTo(VcfNames, MaxVcfNames),
             rs \in SeqsUpTo(VcfReferenceSequences, MaxVcfRefs)}
    /\ vqRegion \in VcfRegions
    /\ vqResult = NoResult
    /\ IdleChunks /\ IdleVP /\ IdleAux /\ IdleRec /\ IdleBgzf /\ IdleBin
    /\ IdleMaxId /\ IdleQuery /\ IdleInt32 /\ IdleStringMap /\ IdleFinish
    /\ IdleLines /\ IdlePerm /\ IdleTabix /\ IdleHeader /\ IdleInfo

VcfQuery ==
    /\ vqResult = NoResult
    /\ \E o \in QueryOutcomes(vqIndex, vqRegion) : vqResult' = o
    /\ UNCHANGED <<vqIndex, vqRegion, chunkVars, vpVars, auxVars, recVars, bgzfVars,
                   binVars, midVars, queryVars, int32Vars, smVars, finishVars,
                   lineVars, permVars, tbxVars, hdVars, infoVars>>

NextVcfQuery == VcfQuery

SpecVcfQuery == InitVcfQuery /\ [][NextVcfQuery]_vars

\* The caller's region is one the query cannot serve: it names a reference
\* that the index's names do not hold, it resolves to a position beyond the
\* index's reference sequences, or it is not mapped.
VcfUnknownName ==
    vqRegion.kind = "Mapped"
    /\ PositionOf(vqIndex.reference_sequence_names, vqRegion.name) < 0

VcfBeyondReferences ==
    vqRegion.kind = "Mapped" /\ ~VcfUnknownName
    /\ PositionOf(vqIndex.reference_sequence_names, vqRegion.name)
           >= Len(vqIndex.reference_sequences)

VcfNotMapped == vqRegion.kind # "Mapped"

\* C21: every rejection of the caller's region by Reader::query is an error of
\* kind InvalidInput (an unknown reference name, a position beyond the index's
\* reference sequences, a region that is not mapped), and no chunk plan is built.
C21_RejectionsAreInvalidInput ==
    (vqResult # NoResult /\ (VcfUnknownName \/ VcfBeyondReferences \/ VcfNotMapped)) =>
        ~vqResult.ok /\ vqResult.kind = "InvalidInput" /\ vqResult.v = <<>>

\* C21, what holds: the three cases are rejected without a chunk plan; the
\* unknown name and the position beyond the reference sequences with
\* InvalidInput, the region that is not mapped with InvalidData; every other
\* region gets its plan.
C21_KindsOfRejection ==
    vqResult # NoResult =>
        IF VcfNotMapped THEN vqResult = Err("InvalidData")
        ELSE IF VcfUnknownName \/ VcfBeyondReferences THEN vqResult = Err("InvalidInput")
        ELSE vqResult.ok


(***************************************************************************)
(* VCF Reader::read_header and read_record (noodles-vcf/src/reader.rs).    *)
(*                                                                         *)
(* The underlying BufRead holds `buffered` bytes after the `pos` consumed; *)
(* fill_buf returns them, and when it holds none it reads a fill of any    *)
(* size from 1 to what is left (none at the end of the stream); `fills`    *)
(* keeps the sizes of the fills read_header caused.                        *)
(***************************************************************************)
LINE_FEED == 10
CARRIAGE_RETURN == 13
HEADER_PREFIX == 35

\* The index of the first LINE_FEED of buf, or 0.
PositionOfLineFeed(buf) ==
    IF \E i \in 1..Len(buf) : buf[i] = LINE_FEED
    THEN CHOOSE i \in 1..Len(buf) : buf[i] = LINE_FEED /\ \A j \in 1..(i - 1) : buf[j] # LINE_FEED
    ELSE 0

\* The sizes fill_buf can give its buffer: the bytes held if any, else a fill.
FillSizes(input, reader) ==
    IF reader.buffered > 0 THEN {reader.buffered}
    ELSE IF reader.pos = Len(input) THEN {0}
    ELSE 1..(Len(input) - reader.pos)

Buffer(input, reader, size) == SubSeq(input, reader.pos + 1, reader.pos + size)

\* Mutant of read_header_iteration: the start of a line is checked on every
\* iteration.
read_header_iteration_ChecksEveryFill(loop, buf) ==
    IF buf = <<>> \/ buf[1] # HEADER_PREFIX
    THEN [break |-> TRUE, loop |-> loop, len |-> 0]
    ELSE LET i == PositionOfLineFeed(buf)
         IN  IF i > 0
             THEN [break |-> FALSE, len |-> i,
                   loop |-> [first |-> FALSE, is_eol |-> TRUE,
                             header_buf |-> loop.header_buf \o SubSeq(buf, 1, i)]]
             ELSE [break |-> FALSE, len |-> Len(buf),
                   loop |-> [first |-> FALSE, is_eol |-> FALSE,
                             header_buf |-> loop.header_buf \o buf]]

\* One iteration of `for i in 0..` on the buffer fill_buf returned: break, or
\* the new locals and the length to consume.  `first` is i == 0.
read_header_iteration(loop, buf) ==
    IF (loop.first \/ loop.is_eol) /\ (buf = <<>> \/ buf[1] # HEADER_PREFIX)
    THEN [break |-> TRUE, loop |-> loop, len |-> 0]
    ELSE LET i == PositionOfLineFeed(buf)
         IN  IF i > 0
             THEN [break |-> FALSE, len |-> i,
                   loop |-> [first |-> FALSE, is_eol |-> TRUE,
                             header_buf |-> loop.header_buf \o SubSeq(buf, 1, i)]]
             ELSE [break |-> FALSE, len |-> Len(buf),
                   loop |-> [first |-> FALSE, is_eol |-> FALSE,
                             header_buf |-> loop.header_buf \o buf]]

\* The iteration changes nothing but i: the stream is at its end, the buffer is
\* empty and the last fill ended inside a line.
Spins(input, reader, loop) ==
    reader.buffered = 0 /\ reader.pos = Len(input) /\ ~loop.first /\ ~loop.is_eol

\* read_line(reader, buf) of reader.rs on an empty buf: BufRead::read_line up
\* to and with the next LINE_FEED or to the end, then the LINE_FEED and a
\* CARRIAGE_RETURN before it popped.
ReadLineAt(input, pos) ==
    LET rest == SubSeq(input, pos + 1, Len(input))
        i == PositionOfLineFeed(rest)
        n == IF i > 0 THEN i ELSE Len(rest)
        line == SubSeq(rest, 1, n)
        no_lf == IF n > 0 /\ line[n] = LINE_FEED THEN SubSeq(line, 1, n - 1) ELSE line
        no_cr == IF n > 0 /\ line[n] = LINE_FEED /\ Len(no_lf) > 0
                    /\ no_lf[Len(no_lf)] = CARRIAGE_RETURN
                 THEN SubSeq(no_lf, 1, Len(no_lf) - 1) ELSE no_lf
    IN  [called |-> TRUE, n |-> n, buf |-> no_cr]

\* The streams tried: '#', '\n' and 'x' in every order.
MaxHeaderInput == 5

HeaderBytes == {HEADER_PREFIX, LINE_FEED, 120}

InitHeader ==
    /\ hdInput \in SeqsUpTo(HeaderBytes, MaxHeaderInput)
    /\ hdReader = [pos |-> 0, buffered |-> 0, fills |-> <<>>]
    /\ hdLoop = [first |-> TRUE, is_eol |-> FALSE, header_buf |-> <<>>]
    /\ hdState = "running"
    /\ hdRecord = NoResult
    /\ IdleChunks /\ IdleVP /\ IdleAux /\ IdleRec /\ IdleBgzf /\ IdleBin
    /\ IdleMaxId /\ IdleQuery /\ IdleInt32 /\ IdleStringMap /\ IdleFinish
    /\ IdleLines /\ IdlePerm /\ IdleTabix /\ IdleVcfQuery /\ IdleInfo

OtherThanHeader ==
    <<chunkVars, vpVars, auxVars, recVars, bgzfVars, binVars, midVars, queryVars,
      int32Vars, smVars, finishVars, lineVars, permVars, tbxVars, vqVars>>

\* One iteration of the loop of read_header: fill_buf, the test, consume.
ReadHeaderIteration ==
    /\ hdState = "running"
    /\ ~Spins(hdInput, hdReader, hdLoop)
    /\ \E size \in FillSizes(hdInput, hdReader) :
          LET it == read_header_iteration(hdLoop, Buffer(hdInput, hdReader, size))
          IN  /\ hdLoop' = it.loop
              /\ hdReader' = [pos |-> hdReader.pos + it.len,
                               buffered |-> size - it.len,
                               fills |-> IF hdReader.buffered > 0 \/ size = 0
                                         THEN hdReader.fills
                                         ELSE Append(hdReader.fills, size)]
              /\ hdState' = IF it.break THEN "returned" ELSE "running"
    /\ UNCHANGED <<hdInput, hdRecord, OtherThanHeader, infoVars>>

\* The iterations at the end of a stream that ends inside a header line: each
\* gets an empty buffer, appends nothing and consumes 0, until i, an i32,
\* reaches i32::MAX.  With overflow checks the next step of the range
\* panics; without them i wraps and, when it is 0 again, the test at the top
\* of the loop breaks on the empty buffer.
ReadHeaderSpin ==
    /\ hdState = "running"
    /\ Spins(hdInput, hdReader, hdLoop)
    /\ hdState' \in {"panicked", "returned"}
    /\ UNCHANGED <<hdInput, hdReader, hdLoop, hdRecord, OtherThanHeader, infoVars>>

\* read_record after read_header returned.
ReadRecord ==
    /\ hdState = "returned"
    /\ hdRecord = NoResult
    /\ hdRecord' = ReadLineAt(hdInput, hdReader.pos)
    /\ LET n == ReadLineAt(hdInput, hdReader.pos).n
       IN  \E left \in (IF hdReader.buffered >= n THEN {hdReader.buffered - n}
                         ELSE 0..(Len(hdInput) - hdReader.pos - n)) :
              hdReader' = [pos |-> hdReader.pos + n, buffered |-> left,
                           fills |-> hdReader.fills]
    /\ UNCHANGED <<hdInput, hdLoop, hdState, OtherThanHeader, infoVars>>

NextHeader == ReadHeaderIteration \/ ReadHeaderSpin \/ ReadRecord

SpecHeader == InitHeader /\ [][NextHeader]_vars

\* The calls run to their end: every step that can be taken is taken.
SpecHeaderLive == SpecHeader /\ WF_vars(NextHeader)

(***************************************************************************)
(* Claims about read_header.                                               *)
(***************************************************************************)
\* The length of the longest prefix of the input, from `at`, made of whole
\* lines whose first byte is '#'.
RECURSIVE HeaderEnd(_, _)
HeaderEnd(input, at) ==
    IF at < Len(input) /\ input[at + 1] = HEADER_PREFIX
    THEN LET i == PositionOfLineFeed(SubSeq(input, at + 1, Len(input)))
         IN  IF i > 0 THEN HeaderEnd(input, at + i) ELSE at
    ELSE at

\* Each header line ends with '\n': after the whole header lines no line
\* starts with '#'.
HeaderLinesEnd(input) ==
    LET end == HeaderEnd(input, 0)
    IN  ~(end < Len(input) /\ input[end + 1] = HEADER_PREFIX)

\* C22: for an input in which each header line ends with '\n', read_header
\* returns, whatever the sizes of the fills, the longest prefix of whole lines
\* that start with '#', the stream is left right after it (nothing is consumed
\* when the header is empty), and the next read_record returns the line that
\* follows.
C22_HeaderIsLongestPrefix ==
    HeaderLinesEnd(hdInput) =>
        /\ hdState # "panicked"
        /\ hdState = "returned" =>
              /\ hdLoop.header_buf = SubSeq(hdInput, 1, HeaderEnd(hdInput, 0))
              /\ hdRecord = NoResult => hdReader.pos = HeaderEnd(hdInput, 0)
              /\ hdRecord # NoResult =>
                    /\ hdRecord = ReadLineAt(hdInput, HeaderEnd(hdInput, 0))
                    /\ hdReader.pos = HeaderEnd(hdInput, 0) + hdRecord.n

\* C22 witness: two header lines and a record; the first header line came in
\* two fills, the second of which ended exactly at the line end, and
\* read_record returned the record.
C22_Witness ==
    /\ hdState = "returned"
    /\ hdInput = <<35, 10, 35, 10, 120>>
    /\ hdLoop.header_buf = <<35, 10, 35, 10>>
    /\ Len(hdReader.fills) >= 3
    /\ hdReader.fills[1] = 1 /\ hdReader.fills[2] = 1
    /\ hdRecord # NoResult
    /\ hdRecord.buf = <<120>>

\* C22 witness for no header: the input starts with a record, read_header
\* returned an empty header with nothing consumed.
C22_WitnessNoHeader ==
    /\ hdState = "returned"
    /\ hdInput # <<>> /\ hdInput[1] # HEADER_PREFIX
    /\ hdLoop.header_buf = <<>>
    /\ hdRecord = NoResult
    /\ hdReader.pos = 0

\* C26: read_header terminates on every finite input: whatever the input and
\* the sizes of the fills, it returns.
C26_ReadHeaderReturns == <>(hdState = "returned")

\* C26, what holds: read_header returns unless the input ends inside a line
\* that starts with '#' and has no final '\n'; on such an input it makes
\* iterations that consume nothing until the counter overflows.
C26_ReturnsUnlessUnterminated ==
    (hdState = "panicked" \/ (hdState = "running" /\ Spins(hdInput, hdReader, hdLoop)))
        => ~HeaderLinesEnd(hdInput)

\* C26, what holds: an input whose header lines all end with '\n' is read to
\* the return.
C26_TerminatedInputReturns == HeaderLinesEnd(hdInput) ~> (hdState = "returned")


(***************************************************************************)
(* VCF header INFO records: Info::try_from (noodles-vcf/src/header/info.rs).*)
(*                                                                         *)
(* A field is a pair (key, value) of strings.  A parsed value is a record  *)
(* with `ok`; the reserved ID tried is NS (Number 1, Type Integer).        *)
(***************************************************************************)
\* k.parse::<Key>(): the keys of an INFO record; "" for a string that is none of them.
ParseKey(k) == IF k \in {"ID", "Number", "Type", "Description", "IDX"} THEN k ELSE ""

\* v.parse::<info::field::Key>(): a reserved key, Other, or an error on "".
ParseId(v) ==
    IF v = "" THEN [ok |-> FALSE]
    ELSE IF v = "NS" THEN [ok |-> TRUE, other |-> FALSE, name |-> v,
                           number |-> "1", ty |-> "Integer"]
    ELSE [ok |-> TRUE, other |-> TRUE, name |-> v, number |-> ".", ty |-> "String"]

\* v.parse::<Number>() and v.parse::<Type>()
ParseNumber(v) == IF v \in {"1", "A", "."} THEN [ok |-> TRUE, v |-> v] ELSE [ok |-> FALSE]

ParseType(v) == IF v \in {"Integer", "String", "Flag"} THEN [ok |-> TRUE, v |-> v]
                ELSE [ok |-> FALSE]

\* value.parse::<usize>() of IDX
ParseIdx(v) == IF v \in {"0", "1"} THEN [ok |-> TRUE, v |-> v] ELSE [ok |-> FALSE]

InfoErr(e, a) == [called |-> TRUE, ok |-> FALSE, error |-> e, args |-> a]
InfoOk(info) == [called |-> TRUE, ok |-> TRUE, error |-> "", args |-> info]

\* IndexMap::insert: a key already present keeps its place and takes the value.
IndexMapInsert(map, field) ==
    IF \E i \in 1..Len(map) : map[i][1] = field[1]
    THEN [i \in 1..Len(map) |-> IF map[i][1] = field[1] THEN field ELSE map[i]]
    ELSE Append(map, field)

\* The loop over the fields after Description: the first IDX that does not
\* parse is the error; otherwise the last IDX and the other fields.
RECURSIVE RestOfFields(_, _, _, _)
RestOfFields(fields, at, idx, others) ==
    IF at > Len(fields) THEN [ok |-> TRUE, idx |-> idx, fields |-> others]
    ELSE IF ParseKey(fields[at][1]) = "IDX"
    THEN IF ParseIdx(fields[at][2]).ok
         THEN RestOfFields(fields, at + 1, Some(fields[at][2]), others)
         ELSE [ok |-> FALSE, idx |-> idx, fields |-> others]
    ELSE RestOfFields(fields, at + 1, idx, IndexMapInsert(others, fields[at]))

parse_struct(fields) ==
    IF Len(fields) < 1 THEN InfoErr("MissingField", <<"ID">>)
    ELSE IF ParseKey(fields[1][1]) # "ID" THEN InfoErr("MissingField", <<"ID">>)
    ELSE IF ~ParseId(fields[1][2]).ok THEN InfoErr("InvalidId", <<>>)
    ELSE IF Len(fields) < 2 THEN InfoErr("MissingField", <<"Number">>)
    ELSE IF ParseKey(fields[2][1]) # "Number" THEN InfoErr("MissingField", <<"ID">>)
    ELSE IF ~ParseNumber(fields[2][2]).ok THEN InfoErr("InvalidNumber", <<>>)
    ELSE IF Len(fields) < 3 THEN InfoErr("MissingField", <<"Type">>)
    ELSE IF ParseKey(fields[3][1]) # "Type" THEN InfoErr("MissingField", <<"Type">>)
    ELSE IF ~ParseType(fields[3][2]).ok THEN InfoErr("InvalidType", <<>>)
    ELSE LET id == ParseId(fields[1][2])
             number == ParseNumber(fields[2][2]).v
             ty == ParseType(fields[3][2]).v
         IN  IF ~id.other /\ id.number # number
             THEN InfoErr("NumberMismatch", <<number, id.number>>)
             ELSE IF ~id.other /\ id.ty # ty
             THEN InfoErr("TypeMismatch", <<ty, id.ty>>)
             ELSE IF Len(fields) < 4 THEN InfoErr("MissingField", <<"Description">>)
             ELSE IF ParseKey(fields[4][1]) # "Description"
             THEN InfoErr("MissingField", <<"Description">>)
             ELSE LET rest == RestOfFields(fields, 5, None, <<>>)
                  IN  IF ~rest.ok THEN InfoErr("InvalidIdx", <<>>)
                      ELSE InfoOk([id |-> id.name, number |-> number, ty |-> ty,
                                   description |-> fields[4][2], idx |-> rest.idx,
                                   fields |-> rest.fields])

\* impl TryFrom<Record> for Info
try_from(record) ==
    IF record.key = "INFO" /\ record.struct THEN parse_struct(record.fields)
    ELSE InfoErr("InvalidRecord", <<>>)

\* The records tried.
MaxInfoFields == 5

InfoFields ==
    {<<"ID", "NS">>, <<"ID", "X">>, <<"Number", "1">>, <<"Number", ".">>,
     <<"Number", "x">>, <<"Type", "Integer">>, <<"Type", "String">>,
     <<"Description", "d">>, <<"IDX", "1">>, <<"Source", "s">>}

InitInfo ==
    /\ infoRecord \in
         {[key |-> "INFO", struct |-> TRUE, fields |-> fs] :
             fs \in SeqsUpTo(InfoFields, MaxInfoFields)}
         \cup {[key |-> "INFO", struct |-> FALSE, fields |-> <<>>],
               [key |-> "FILTER", struct |-> TRUE, fields |-> <<<<"ID", "NS">>>>]}
    /\ infoResult = NoResult
    /\ IdleChunks /\ IdleVP /\ IdleAux /\ IdleRec /\ IdleBgzf /\ IdleBin
    /\ IdleMaxId /\ IdleQuery /\ IdleInt32 /\ IdleStringMap /\ IdleFinish
    /\ IdleLines /\ IdlePerm /\ IdleTabix /\ IdleVcfQuery /\ IdleHeader

InfoTryFrom ==
    /\ infoResult = NoResult
    /\ infoResult' = try_from(infoRecord)
    /\ UNCHANGED <<infoRecord, OtherThanHeader, hdVars>>

NextInfo == InfoTryFrom

SpecInfo == InitInfo /\ [][NextInfo]_vars

(***************************************************************************)
(* Claims about Info::try_from.                                            *)
(***************************************************************************)
RequiredKeys == <<"ID", "Number", "Type", "Description">>

\* The required key p is absent or not at its position.
NotAtPosition(p) ==
    Len(infoRecord.fields) < p \/ infoRecord.fields[p][1] # RequiredKeys[p]

\* The first of the four required keys that is absent or not at its position; 0
\* when all four are in place.
FirstMissing ==
    IF \E p \in 1..4 : NotAtPosition(p)
    THEN CHOOSE p \in 1..4 : NotAtPosition(p) /\ \A q \in 1..(p - 1) : ~NotAtPosition(q)
    ELSE 0

\* The call was on an INFO struct record and found no value it could not parse.
InfoParsed ==
    /\ infoResult # NoResult
    /\ infoRecord.key = "INFO" /\ infoRecord.struct
    /\ infoResult.error \notin {"InvalidId", "InvalidNumber", "InvalidType", "InvalidIdx"}

\* ID, Number and Type are in place, the ID is reserved, and the Number or the
\* Type differs from the reserved definition.
ReservedMismatch ==
    /\ FirstMissing \in {0, 4}
    /\ ~ParseId(infoRecord.fields[1][2]).other
    /\ \/ infoRecord.fields[2][2] # ParseId(infoRecord.fields[1][2]).number
       \/ infoRecord.fields[3][2] # ParseId(infoRecord.fields[1][2]).ty

\* C30: when the fields do not start with ID, Number, Type, Description in that
\* order, the error is MissingField(k) for the first of these keys that is
\* absent or not at its position; for a reserved ID whose Number or Type
\* differs from the reserved definition the error is NumberMismatch (checked
\* first) or TypeMismatch, before a missing Description.
C30_FirstMissingKeyIsNamed ==
    InfoParsed =>
        IF ReservedMismatch
        THEN IF infoRecord.fields[2][2] # ParseId(infoRecord.fields[1][2]).number
             THEN infoResult.error = "NumberMismatch"
             ELSE infoResult.error = "TypeMismatch"
        ELSE IF FirstMissing # 0
        THEN infoResult = InfoErr("MissingField", <<RequiredKeys[FirstMissing]>>)
        ELSE infoResult.ok

\* C30, what holds: the same, except that a second field whose key is not
\* Number gives MissingField(ID).
C30_SecondKeyReportedAsId ==
    InfoParsed =>
        IF ReservedMismatch
        THEN IF infoRecord.fields[2][2] # ParseId(infoRecord.fields[1][2]).number
             THEN infoResult.error = "NumberMismatch"
             ELSE infoResult.error = "TypeMismatch"
        ELSE IF FirstMissing = 2 /\ Len(infoRecord.fields) >= 2
        THEN infoResult = InfoErr("MissingField", <<"ID">>)
        ELSE IF FirstMissing # 0
        THEN infoResult = InfoErr("MissingField", <<RequiredKeys[FirstMissing]>>)
        ELSE infoResult.ok

=============================================================================
